---------------------------- MODULE Spec2Model ----------------------------
(***************************************************************************)
(* Turbine: the functional core (decide / evolve), the event store and     *)
(* the orchestrator loop.                                                  *)
(*                                                                         *)
(* Conventions of the model                                                *)
(*   - a JavaScript Date is <<"Date", t>>, the ISO string that JSON makes  *)
(*     of it is <<"iso", t>>; t is the reading of the clock;               *)
(*   - an optional value (x | undefined) is a sequence: <<>> or <<x>>;     *)
(*   - a score in 0.0 .. 1.0 is an integer in 0 .. ScoreUnit (1/320ths:    *)
(*     every product coverage/80 * 0.25 is then exact);                    *)
(*   - arrays are sequences.                                               *)
(***************************************************************************)
EXTENDS Integers, Sequences, FiniteSets, TLC

VARIABLES
    state,       \* Orchestrator.state: the in-memory State
    pc,          \* position of the running process in Orchestrator.run
    events,      \* rows of the events table, in id order (id = position)
    snapshots,   \* rows of the snapshots table, in insertion order
    clock,       \* the wall clock: the value the next new Date() reads
    maxTurns,    \* options.maxTurns of the session
    initial,     \* the State createInitialState built in this process
    lastEvent,   \* <<e>>: the event applyEvent / evolve applied last
    lastMem,     \* <<s>>: the in-memory State of the process that stopped last
    iters,       \* runTurn iterations started by this process
    llmTurns,    \* per phase: StartTurn commands of this process that ran InvokeLLM
    allGreen,    \* no adapter call of this process has failed so far
    restarts,    \* processes stopped so far
    caps,        \* exploration limits of the behaviour (see Init)
    lastCmd,     \* <<r>>: the record of the command decide / processCommand handled last
    passes,      \* SpecEvolve: TestsPassed events applied since the last TestsFailed
                 \* or TypeCheckFailed event
    extractions  \* requirements-extraction InvokeLLM effects that were executed, over
                 \* all processes of the session

vars == << state, pc, events, snapshots, clock, maxTurns, initial, lastEvent,
           lastMem, iters, llmTurns, allGreen, restarts, caps, lastCmd, passes,
           extractions >>

-----------------------------------------------------------------------------
(* Sequence helpers (Array.prototype.map / filter / find / every)           *)

Map(s, F(_)) == [i \in DOMAIN s |-> F(s[i])]

Range(s) == {s[i] : i \in DOMAIN s}

Min(a, b) == IF a <= b THEN a ELSE b

Date(t) == <<"Date", t>>

Iso(t) == <<"iso", t>>

-----------------------------------------------------------------------------
(* core/types.ts                                                            *)

PHASE_ORDER ==
    << "requirements", "design", "implementation", "testing",
       "documentation", "verification" >>

Phase == Range(PHASE_ORDER)

\* PHASE_ORDER.indexOf(p), 1-based; 0 stands for JavaScript's -1
indexOf(p) ==
    IF p \in Phase THEN CHOOSE i \in DOMAIN PHASE_ORDER : PHASE_ORDER[i] = p ELSE 0

getDefaultBudget(phase) ==
    CASE phase = "requirements"   -> 50
      [] phase = "design"         -> 100
      [] phase = "implementation" -> 500
      [] phase = "testing"        -> 200
      [] phase = "documentation"  -> 100
      [] phase = "verification"   -> 50

\* the unit of a score: ScoreUnit stands for 1.0
ScoreUnit == 320

createInitialState(prompt, now) ==
    [ phase |-> "requirements",
      turn |-> 0,
      prompt |-> prompt,
      checklist |-> << >>,
      artifacts |-> << >>,
      budgets |-> Map(PHASE_ORDER,
                      LAMBDA p : [phase |-> p, maxTurns |-> getDefaultBudget(p),
                                  usedTurns |-> 0]),
      confidence |-> [ typesSafe |-> FALSE, schemaValid |-> FALSE,
                       testsPass |-> FALSE, coverage |-> 0,
                       checklistComplete |-> FALSE, overallScore |-> 0 ],
      pendingCheckpoint |-> << >>,
      lastApprovedCheckpoint |-> << >>,
      convergenceStreak |-> 0,
      converged |-> FALSE,
      startedAt |-> Date(now),
      lastActivityAt |-> Date(now) ]

\* calculateOverallConfidence without the schemaValid gate
calculateOverallConfidenceUngated(c) ==
    IF ~c.typesSafe THEN 0
    ELSE IF ~c.testsPass THEN (3 * ScoreUnit) \div 10
    ELSE (ScoreUnit \div 2)
         + Min(c.coverage, 80)
         + (IF c.checklistComplete THEN ScoreUnit \div 4 ELSE 0)

\* 0 | 0.3 | 0.5 + min(coverage / 80, 1) * 0.25 + (0.25 | 0), in 1/320ths
calculateOverallConfidence(c) ==
    IF ~c.typesSafe THEN 0
    ELSE IF ~c.schemaValid THEN 0
    ELSE IF ~c.testsPass THEN (3 * ScoreUnit) \div 10
    ELSE (ScoreUnit \div 2)
         + Min(c.coverage, 80)
         + (IF c.checklistComplete THEN ScoreUnit \div 4 ELSE 0)

CONVERGENCE_THRESHOLD == (9 * ScoreUnit) \div 10

CONVERGENCE_STREAK_REQUIRED == 3

\* hasConverged satisfied by a streak one short of the required one
hasConvergedOneShort(s) ==
    /\ s.confidence.overallScore >= CONVERGENCE_THRESHOLD
    /\ s.convergenceStreak >= CONVERGENCE_STREAK_REQUIRED - 1

hasConverged(s) ==
    /\ s.confidence.overallScore >= CONVERGENCE_THRESHOLD
    /\ s.convergenceStreak >= CONVERGENCE_STREAK_REQUIRED

-----------------------------------------------------------------------------
(* core/evolve.ts                                                           *)

evolveInitialized(s, e) ==
    [s EXCEPT !.prompt = e.prompt,
              !.checklist = e.checklist,
              !.budgets = e.budgets,
              !.phase = "requirements",
              !.turn = 0,
              !.startedAt = e.timestamp,
              !.lastActivityAt = e.timestamp]

evolvePhaseStarted(s, e) ==
    [s EXCEPT !.phase = e.phase,
              !.budgets = Map(s.budgets,
                              LAMBDA b : IF b.phase = e.phase THEN e.budget ELSE b),
              !.lastActivityAt = e.timestamp]

evolvePhaseCompleted(s, e) ==
    LET currentIndex == indexOf(e.phase)
        nextPhase == IF currentIndex + 1 \in DOMAIN PHASE_ORDER
                     THEN PHASE_ORDER[currentIndex + 1] ELSE e.phase
    IN [s EXCEPT !.phase = nextPhase,
                 !.budgets = Map(s.budgets,
                                 LAMBDA b : IF b.phase = e.phase
                                            THEN [b EXCEPT !.usedTurns = e.turnsUsed]
                                            ELSE b),
                 !.lastActivityAt = e.timestamp]

evolveTurnStarted(s, e) ==
    [s EXCEPT !.turn = e.turn, !.lastActivityAt = e.timestamp]

evolveTurnCompleted(s, e) ==
    [s EXCEPT !.budgets = Map(s.budgets,
                              LAMBDA b : IF b.phase = e.phase
                                         THEN [b EXCEPT !.usedTurns = b.usedTurns + 1]
                                         ELSE b),
              !.lastActivityAt = e.timestamp]

evolveArtifactCreated(s, e) ==
    [s EXCEPT !.artifacts = Append(s.artifacts, e.artifact),
              !.lastActivityAt = e.timestamp]

evolveArtifactUpdated(s, e) ==
    [s EXCEPT !.artifacts = Map(s.artifacts,
                                LAMBDA a : IF a.id = e.artifactId
                                           THEN [a EXCEPT !.hash = e.newHash,
                                                          !.updatedAt = e.timestamp]
                                           ELSE a),
              !.lastActivityAt = e.timestamp]

evolveChecklistItemCompleted(s, e) ==
    LET updatedChecklist ==
            Map(s.checklist,
                LAMBDA item : IF item.id = e.itemId
                              THEN [item EXCEPT !.completed = TRUE,
                                                !.evidence = <<e.evidence>>,
                                                !.completedAt = <<e.timestamp>>]
                              ELSE item)
        checklistComplete == \A i \in DOMAIN updatedChecklist : updatedChecklist[i].completed
        conf == [s.confidence EXCEPT !.checklistComplete = checklistComplete]
    IN [s EXCEPT !.checklist = updatedChecklist,
                 !.confidence = [conf EXCEPT !.overallScore = calculateOverallConfidence(conf)],
                 !.lastActivityAt = e.timestamp]

\* event.result.coverage ?? state.confidence.coverage
coverageOr(result, c) == IF result.coverage = << >> THEN c.coverage ELSE result.coverage[1]

evolveTestsPassed(s, e) ==
    LET conf == [s.confidence EXCEPT !.testsPass = TRUE,
                                     !.coverage = coverageOr(e.result, s.confidence)]
        updatedConfidence == [conf EXCEPT !.overallScore = calculateOverallConfidence(conf)]
        newStreak == s.convergenceStreak + 1
    IN [s EXCEPT !.confidence = updatedConfidence,
                 !.convergenceStreak = newStreak,
                 !.converged = hasConverged([s EXCEPT !.confidence = updatedConfidence,
                                                      !.convergenceStreak = newStreak]),
                 !.lastActivityAt = e.timestamp]

\* evolveTestsFailed without the reset of the streak
evolveTestsFailedKeepingStreak(s, e) ==
    LET conf == [s.confidence EXCEPT !.testsPass = FALSE,
                                     !.coverage = coverageOr(e.result, s.confidence)]
    IN [s EXCEPT !.confidence = [conf EXCEPT !.overallScore = calculateOverallConfidence(conf)],
                 !.lastActivityAt = e.timestamp]

evolveTestsFailed(s, e) ==
    LET conf == [s.confidence EXCEPT !.testsPass = FALSE,
                                     !.coverage = coverageOr(e.result, s.confidence)]
    IN [s EXCEPT !.confidence = [conf EXCEPT !.overallScore = calculateOverallConfidence(conf)],
                 !.convergenceStreak = 0,
                 !.lastActivityAt = e.timestamp]

evolveTypeCheckPassed(s, e) ==
    LET conf == [s.confidence EXCEPT !.typesSafe = TRUE]
    IN [s EXCEPT !.confidence = [conf EXCEPT !.overallScore = calculateOverallConfidence(conf)],
                 !.lastActivityAt = e.timestamp]

evolveTypeCheckFailed(s, e) ==
    LET conf == [s.confidence EXCEPT !.typesSafe = FALSE]
    IN [s EXCEPT !.confidence = [conf EXCEPT !.overallScore = calculateOverallConfidence(conf)],
                 !.convergenceStreak = 0,
                 !.lastActivityAt = e.timestamp]

evolveConfidenceUpdated(s, e) ==
    [s EXCEPT !.confidence = e.confidence,
              !.converged = hasConverged([s EXCEPT !.confidence = e.confidence]),
              !.lastActivityAt = e.timestamp]

evolveCheckpointCreated(s, e) ==
    [s EXCEPT !.pendingCheckpoint = <<e.summary>>, !.lastActivityAt = e.timestamp]

\* state.pendingCheckpoint?.id !== event.checkpointId
pendingIdDiffers(s, id) ==
    \/ s.pendingCheckpoint = << >>
    \/ s.pendingCheckpoint[1].id # id

\* evolveCheckpointApproved without the comparison of the ids
evolveCheckpointApprovedUnchecked(s, e) ==
    [s EXCEPT !.lastApprovedCheckpoint = s.pendingCheckpoint,
              !.pendingCheckpoint = << >>,
              !.lastActivityAt = e.timestamp]

evolveCheckpointApproved(s, e) ==
    IF pendingIdDiffers(s, e.checkpointId) THEN s
    ELSE [s EXCEPT !.lastApprovedCheckpoint = s.pendingCheckpoint,
                   !.pendingCheckpoint = << >>,
                   !.lastActivityAt = e.timestamp]

evolveCheckpointRejected(s, e) ==
    IF pendingIdDiffers(s, e.checkpointId) THEN s
    ELSE [s EXCEPT !.pendingCheckpoint = << >>, !.lastActivityAt = e.timestamp]

evolveConvergenceReached(s, e) ==
    [s EXCEPT !.converged = TRUE,
              !.confidence = [s.confidence EXCEPT !.overallScore = e.finalConfidence],
              !.lastActivityAt = e.timestamp]

evolveBudgetExhausted(s, e) ==
    [s EXCEPT !.budgets = Map(s.budgets,
                              LAMBDA b : IF b.phase = e.phase
                                         THEN [b EXCEPT !.usedTurns = e.turnsUsed]
                                         ELSE b),
              !.lastActivityAt = e.timestamp]

evolveErrorOccurred(s, e) ==
    [s EXCEPT !.lastActivityAt = e.timestamp]

evolve(s, e) ==
    CASE e.kind = "Initialized"            -> evolveInitialized(s, e)
      [] e.kind = "PhaseStarted"           -> evolvePhaseStarted(s, e)
      [] e.kind = "PhaseCompleted"         -> evolvePhaseCompleted(s, e)
      [] e.kind = "TurnStarted"            -> evolveTurnStarted(s, e)
      [] e.kind = "TurnCompleted"          -> evolveTurnCompleted(s, e)
      [] e.kind = "ArtifactCreated"        -> evolveArtifactCreated(s, e)
      [] e.kind = "ArtifactUpdated"        -> evolveArtifactUpdated(s, e)
      [] e.kind = "ChecklistItemCompleted" -> evolveChecklistItemCompleted(s, e)
      [] e.kind = "TestsPassed"            -> evolveTestsPassed(s, e)
      [] e.kind = "TestsFailed"            -> evolveTestsFailed(s, e)
      [] e.kind = "TypeCheckPassed"        -> evolveTypeCheckPassed(s, e)
      [] e.kind = "TypeCheckFailed"        -> evolveTypeCheckFailed(s, e)
      [] e.kind = "ConfidenceUpdated"      -> evolveConfidenceUpdated(s, e)
      [] e.kind = "CheckpointCreated"      -> evolveCheckpointCreated(s, e)
      [] e.kind = "CheckpointApproved"     -> evolveCheckpointApproved(s, e)
      [] e.kind = "CheckpointRejected"     -> evolveCheckpointRejected(s, e)
      [] e.kind = "ConvergenceReached"     -> evolveConvergenceReached(s, e)
      [] e.kind = "BudgetExhausted"        -> evolveBudgetExhausted(s, e)
      [] e.kind = "ErrorOccurred"          -> evolveErrorOccurred(s, e)

\* events.reduce(evolve, initialState)
RECURSIVE replay(_, _)
replay(evs, initialState) ==
    IF evs = << >> THEN initialState
    ELSE LET evolved == evolve(initialState, Head(evs))
         IN \* reduce is strict: the state is computed before the next event is taken
            IF evolved = evolved THEN replay(Tail(evs), evolved) ELSE evolved

-----------------------------------------------------------------------------
(* The events evolve is applied to: every kind of the Event union           *)
(* (core/types.ts), its fields drawn from small sets.                       *)

\* phases an event names
PhaseIn == {"requirements", "design", "verification"}

\* ids: the third one of each family is an id no entity of the state carries
ItemIds == {"i1", "i2", "i9"}

ArtifactIds == {"a1", "a9"}

CheckpointIds == {"c1", "c2"}

ChecklistItem(id, phase) ==
    [ id |-> id, phase |-> phase, description |-> id, completed |-> FALSE,
      evidence |-> << >>, completedAt |-> << >> ]

ChecklistIn ==
    { << >>,
      << ChecklistItem("i1", "requirements"), ChecklistItem("i2", "design") >> }

TurnBudget(phase, maxT, used) == [phase |-> phase, maxTurns |-> maxT, usedTurns |-> used]

\* the budgets an Initialized event may carry: z.array(TurnBudget)
BudgetsIn ==
    { Map(PHASE_ORDER, LAMBDA p : TurnBudget(p, getDefaultBudget(p), 0)),
      Map(PHASE_ORDER, LAMBDA p : TurnBudget(p, 1, 0)),
      << TurnBudget("requirements", 1, 0) >> }

TestResult(passed, coverage) ==
    [ passed |-> passed, totalTests |-> 0, passedTests |-> 0, failedTests |-> 0,
      coverage |-> coverage, failures |-> << >> ]

ConfidenceIn ==
    { [ typesSafe |-> TRUE, schemaValid |-> TRUE, testsPass |-> TRUE, coverage |-> 80,
        checklistComplete |-> TRUE, overallScore |-> ScoreUnit ],
      [ typesSafe |-> TRUE, schemaValid |-> TRUE, testsPass |-> FALSE, coverage |-> 0,
        checklistComplete |-> FALSE, overallScore |-> ScoreUnit ] }

CheckpointSummary(id, s, now) ==
    [ id |-> id, phase |-> s.phase, turn |-> s.turn,
      checklistProgress |->
          [ completed |-> Cardinality({i \in DOMAIN s.checklist : s.checklist[i].completed}),
            total |-> Len(s.checklist) ],
      artifactCount |-> Len(s.artifacts),
      confidence |-> s.confidence.overallScore,
      createdAt |-> Date(now) ]

Artifact(id, path, hash, phase, now) ==
    [ id |-> id, path |-> path, hash |-> hash, phase |-> phase,
      createdAt |-> Date(now), updatedAt |-> Date(now) ]

\* the events of kind k stamped at time now, for a state s
EventsOfKind(k, s, now) ==
    LET ts == Date(now) IN
    CASE k = "Initialized" ->
           { [kind |-> k, prompt |-> "p", checklist |-> c, budgets |-> b, timestamp |-> ts]
               : c \in ChecklistIn, b \in BudgetsIn }
      [] k = "PhaseStarted" ->
           { [kind |-> k, phase |-> p, budget |-> TurnBudget(q, 1, 0), timestamp |-> ts]
               : p \in PhaseIn, q \in PhaseIn }
      [] k = "PhaseCompleted" ->
           { [kind |-> k, phase |-> p, turnsUsed |-> n, timestamp |-> ts]
               : p \in PhaseIn, n \in {0, 51} }
      [] k = "TurnStarted" ->
           { [kind |-> k, turn |-> n, phase |-> s.phase, timestamp |-> ts] : n \in 0 .. 2 }
      [] k = "TurnCompleted" ->
           { [kind |-> k, turn |-> s.turn, phase |-> p, tokensUsed |-> 0, timestamp |-> ts]
               : p \in PhaseIn }
      [] k = "ArtifactCreated" ->
           { [kind |-> k, artifact |-> Artifact("a1", "f1", "h1", s.phase, now), timestamp |-> ts] }
      [] k = "ArtifactUpdated" ->
           { [kind |-> k, artifactId |-> a, newHash |-> "h2", timestamp |-> ts]
               : a \in ArtifactIds }
      [] k = "ChecklistItemCompleted" ->
           { [kind |-> k, itemId |-> i, evidence |-> "ev", timestamp |-> ts] : i \in ItemIds }
      [] k = "TestsPassed" ->
           { [kind |-> k, result |-> TestResult(TRUE, c), timestamp |-> ts]
               : c \in {<< >>, <<50>>, <<80>>} }
      [] k = "TestsFailed" ->
           { [kind |-> k, result |-> TestResult(FALSE, c), timestamp |-> ts]
               : c \in {<< >>, <<50>>} }
      [] k = "TypeCheckPassed" -> { [kind |-> k, timestamp |-> ts] }
      [] k = "TypeCheckFailed" -> { [kind |-> k, errors |-> <<"e">>, timestamp |-> ts] }
      [] k = "ConfidenceUpdated" ->
           { [kind |-> k, confidence |-> c, timestamp |-> ts] : c \in ConfidenceIn }
      [] k = "CheckpointCreated" ->
           { [kind |-> k, summary |-> CheckpointSummary(c, s, now), timestamp |-> ts]
               : c \in CheckpointIds }
      [] k = "CheckpointApproved" ->
           { [kind |-> k, checkpointId |-> c, timestamp |-> ts] : c \in CheckpointIds }
      [] k = "CheckpointRejected" ->
           { [kind |-> k, checkpointId |-> c, reason |-> "r", timestamp |-> ts]
               : c \in CheckpointIds }
      [] k = "ConvergenceReached" ->
           { [kind |-> k, finalConfidence |-> f, totalTurns |-> s.turn, timestamp |-> ts]
               : f \in {0, ScoreUnit} }
      [] k = "BudgetExhausted" ->
           { [kind |-> k, phase |-> p, turnsUsed |-> n, timestamp |-> ts]
               : p \in PhaseIn, n \in {0, 51} }
      [] k = "ErrorOccurred" ->
           { [kind |-> k, message |-> "m", recoverable |-> TRUE, timestamp |-> ts] }

-----------------------------------------------------------------------------
(* SpecEvolve: the fold  events.reduce(evolve, createInitialState(prompt))  *)
(* over every sequence of at most MaxSteps events.                          *)

\* events applied in one behaviour of SpecEvolve
MaxSteps == 4

\* SpecEvolve explores no orchestrator run: nothing to limit
NoCaps == [events |-> 0, iters |-> 0, adapters |-> {}, restartFrom |-> 0]

InitEvolve ==
    /\ state = createInitialState("p0", 0)
    /\ pc = "evolve"
    /\ events = << >>
    /\ snapshots = << >>
    /\ clock = 0
    /\ maxTurns = 0
    /\ initial = createInitialState("p0", 0)
    /\ lastEvent = << >>
    /\ lastMem = << >>
    /\ iters = 0
    /\ llmTurns = [p \in Phase |-> 0]
    /\ allGreen = TRUE
    /\ restarts = 0
    /\ caps = NoCaps
    /\ lastCmd = << >>
    /\ passes = 0
    /\ extractions = 0

\* the TestsPassed events since the last failure event, once kind k is applied
passesAfter(n, k) ==
    IF k = "TestsPassed" THEN n + 1
    ELSE IF k \in {"TestsFailed", "TypeCheckFailed"} THEN 0
    ELSE n

\* one application of evolve to an event of kind k
Apply(k) ==
    /\ pc = "evolve"
    /\ clock < MaxSteps
    /\ \E e \in EventsOfKind(k, state, clock + 1) :
          /\ state' = evolve(state, e)
          /\ lastEvent' = <<e>>
    /\ clock' = clock + 1
    /\ passes' = passesAfter(passes, k)
    /\ UNCHANGED << pc, events, snapshots, maxTurns, initial, lastMem, iters,
                    llmTurns, allGreen, restarts, caps, lastCmd, extractions >>

NextEvolve ==
    \/ Apply("Initialized")
    \/ Apply("PhaseStarted")
    \/ Apply("PhaseCompleted")
    \/ Apply("TurnStarted")
    \/ Apply("TurnCompleted")
    \/ Apply("ArtifactCreated")
    \/ Apply("ArtifactUpdated")
    \/ Apply("ChecklistItemCompleted")
    \/ Apply("TestsPassed")
    \/ Apply("TestsFailed")
    \/ Apply("TypeCheckPassed")
    \/ Apply("TypeCheckFailed")
    \/ Apply("ConfidenceUpdated")
    \/ Apply("CheckpointCreated")
    \/ Apply("CheckpointApproved")
    \/ Apply("CheckpointRejected")
    \/ Apply("ConvergenceReached")
    \/ Apply("BudgetExhausted")
    \/ Apply("ErrorOccurred")

SpecEvolve == InitEvolve /\ [][NextEvolve]_vars

-----------------------------------------------------------------------------
(* SpecScore: the evolvers that recompute confidence.overallScore, applied  *)
(* to every confidence record a ConfidenceUpdated event can have stored.    *)

\* z.number().min(0).max(100)
MaxCoverage == 100

\* recomputing events applied in one behaviour of SpecScore
MaxRecalc == 1

ConfidenceRecords ==
    [ typesSafe : BOOLEAN, schemaValid : BOOLEAN, testsPass : BOOLEAN,
      coverage : 0 .. MaxCoverage, checklistComplete : BOOLEAN, overallScore : {0} ]

\* Initialized, then ConfidenceUpdated carrying the record c
ScoreHistory(c, l) ==
    << [ kind |-> "Initialized", prompt |-> "p", checklist |-> l,
         budgets |-> createInitialState("p0", 0).budgets, timestamp |-> Date(1) ],
       [ kind |-> "ConfidenceUpdated", confidence |-> c, timestamp |-> Date(2) ] >>

InitScore ==
    /\ \E c \in ConfidenceRecords, l \in ChecklistIn :
          /\ state = replay(ScoreHistory(c, l), createInitialState("p0", 0))
          /\ lastEvent = << ScoreHistory(c, l)[2] >>
    /\ pc = "evolve"
    /\ events = << >>
    /\ snapshots = << >>
    /\ clock = 2
    /\ maxTurns = 0
    /\ initial = createInitialState("p0", 0)
    /\ lastMem = << >>
    /\ iters = 0
    /\ llmTurns = [p \in Phase |-> 0]
    /\ allGreen = TRUE
    /\ restarts = 0
    /\ caps = NoCaps
    /\ lastCmd = << >>
    /\ passes = 0
    /\ extractions = 0

\* the event kinds whose evolver recomputes the score
Recalculating ==
    {"ChecklistItemCompleted", "TestsPassed", "TestsFailed", "TypeCheckPassed",
     "TypeCheckFailed"}

Recalculate(k) ==
    /\ clock < 2 + MaxRecalc
    /\ Apply(k)

NextScore ==
    \/ Recalculate("ChecklistItemCompleted")
    \/ Recalculate("TestsPassed")
    \/ Recalculate("TestsFailed")
    \/ Recalculate("TypeCheckPassed")
    \/ Recalculate("TypeCheckFailed")

SpecScore == InitScore /\ [][NextScore]_vars

-----------------------------------------------------------------------------
(* core/decide.ts: the commands Orchestrator.run issues.  An effect keeps   *)
(* its kind and the fields the interpreter and the mapping read.            *)

Log(level, message) == [kind |-> "Log", level |-> level, message |-> message]

StartSpan(name) == [kind |-> "StartSpan", name |-> name]

RecordMetric(name) == [kind |-> "RecordMetric", name |-> name]

InvokeLLM(prompt, maxTokens) == [kind |-> "InvokeLLM", prompt |-> prompt, maxTokens |-> maxTokens]

decideInitialize(command, s) ==
    IF s.turn > 0 \/ Len(s.checklist) > 0
    THEN << Log("warn", "Attempted to initialize already-started session") >>
    ELSE << Log("info", "Initializing Turbine session"),
            StartSpan("turbine.session"),
            InvokeLLM("requirements-extraction", 4000) >>

\* state.checklist.filter(i => i.phase === phase): the positions kept
phaseItems(s, phase) == {i \in DOMAIN s.checklist : s.checklist[i].phase = phase}

isPhaseChecklistComplete(s, phase) ==
    /\ phaseItems(s, phase) # {}
    /\ \A i \in phaseItems(s, phase) : s.checklist[i].completed

decideAdvancePhase(s) ==
    LET currentIndex == indexOf(s.phase) IN
    IF currentIndex + 1 \notin DOMAIN PHASE_ORDER
    THEN << Log("info", "Already at final phase, checking convergence") >>
    ELSE IF ~isPhaseChecklistComplete(s, s.phase)
    THEN << Log("warn", "Cannot advance phase - checklist incomplete") >>
    ELSE << Log("info", "Advancing to next phase"), RecordMetric("phase_completed") >>

\* state.budgets.find(b => b.phase === phase): <<>> when there is none
findBudget(s, phase) ==
    LET hits == {i \in DOMAIN s.budgets : s.budgets[i].phase = phase} IN
    IF hits = {} THEN << >>
    ELSE << s.budgets[CHOOSE i \in hits : \A j \in hits : i <= j] >>

\* decideStartTurn without the consultation of the budget
decideStartTurnUnbudgeted(s) ==
    IF hasConverged(s)
    THEN << Log("info", "Session converged - no more turns needed") >>
    ELSE << StartSpan("turbine.turn"), Log("info", "Starting turn"),
            InvokeLLM("phase-prompt", 8000) >>

decideStartTurn(s) ==
    LET budget == findBudget(s, s.phase) IN
    IF hasConverged(s)
    THEN << Log("info", "Session converged - no more turns needed") >>
    ELSE IF budget # << >> /\ budget[1].usedTurns >= budget[1].maxTurns
    THEN << Log("warn", "Budget exhausted for phase"), RecordMetric("budget_exhausted") >>
    ELSE << StartSpan("turbine.turn"), Log("info", "Starting turn"),
            InvokeLLM("phase-prompt", 8000) >>

\* the WriteFile effects of the write_file tool uses that carry a path and a
\* content, in the order of the tool uses
RECURSIVE writeEffects(_)
writeEffects(toolUses) ==
    IF toolUses = << >> THEN << >>
    ELSE LET toolUse == Head(toolUses) IN
         (IF /\ toolUse.tool = "write_file"
             /\ toolUse.input.path # << >>
             /\ toolUse.input.content # ""
          THEN << [kind |-> "WriteFile", path |-> toolUse.input.path,
                   content |-> toolUse.input.content] >>
          ELSE << >>)
         \o writeEffects(Tail(toolUses))

decideProcessLLMResponse(command, s) ==
    << Log("info", "Processing LLM response"), RecordMetric("tokens_used") >>
    \o writeEffects(command.response.toolUses)
    \o (IF s.phase = "implementation" \/ s.phase = "testing"
        THEN << [kind |-> "RunTests", coverage |-> TRUE], [kind |-> "CheckTypes"] >>
        ELSE << >>)

\* decideRequestCheckpoint without the test of state.pendingCheckpoint
decideRequestCheckpointUnguarded(s, rnd) ==
    LET summary == CheckpointSummary(rnd.uuid, s, rnd.now) IN
    << Log("info", "Checkpoint requested"),
       [kind |-> "EmitCheckpoint", summary |-> summary],
       [kind |-> "WaitForApproval", checkpointId |-> summary.id, timeoutMs |-> 300000] >>

\* rnd: what uuid() and new Date() return inside decide
decideRequestCheckpoint(s, rnd) ==
    IF s.pendingCheckpoint # << >>
    THEN << Log("warn", "Checkpoint already pending") >>
    ELSE LET summary == CheckpointSummary(rnd.uuid, s, rnd.now) IN
         << Log("info", "Checkpoint requested"),
            [kind |-> "EmitCheckpoint", summary |-> summary],
            [kind |-> "WaitForApproval", checkpointId |-> summary.id, timeoutMs |-> 300000] >>

decide(command, s, rnd) ==
    CASE command.kind = "Initialize"        -> decideInitialize(command, s)
      [] command.kind = "AdvancePhase"      -> decideAdvancePhase(s)
      [] command.kind = "StartTurn"         -> decideStartTurn(s)
      [] command.kind = "ProcessLLMResponse" -> decideProcessLLMResponse(command, s)
      [] command.kind = "RequestCheckpoint" -> decideRequestCheckpoint(s, rnd)

-----------------------------------------------------------------------------
(* SpecDecide: decide called once on a state reached through evolve by a    *)
(* bounded history of events.                                               *)

\* events applied before decide is called
MaxHistory == 4

History(k) ==
    /\ clock < MaxHistory
    /\ Apply(k)

\* decide(command, state) called twice on the same arguments; the state is
\* left as it was.  uuid() and new Date() answer each call on their own.
Decide(command) ==
    /\ pc = "evolve"
    /\ \E id \in CheckpointIds, id2 \in CheckpointIds, now2 \in {clock, clock + 1} :
          lastCmd' = << [ command |-> command,
                          before |-> state,
                          effects |-> decide(command, state, [uuid |-> id, now |-> clock]),
                          again |-> decide(command, state, [uuid |-> id2, now |-> now2]),
                          results |-> << >>,
                          threw |-> FALSE,
                          applied |-> << >>,
                          unlogged |-> << >>,
                          escaped |-> FALSE ] >>
    /\ pc' = "decided"
    /\ UNCHANGED << state, events, snapshots, clock, maxTurns, initial, lastEvent,
                    lastMem, iters, llmTurns, allGreen, restarts, caps, passes,
                    extractions >>

NextDecide ==
    \/ History("Initialized")
    \/ History("TurnStarted")
    \/ History("TurnCompleted")
    \/ History("ChecklistItemCompleted")
    \/ History("PhaseCompleted")
    \/ History("TestsPassed")
    \/ History("ConfidenceUpdated")
    \/ History("CheckpointCreated")
    \/ History("CheckpointApproved")
    \/ Decide([kind |-> "Initialize", prompt |-> "p"])
    \/ Decide([kind |-> "AdvancePhase"])
    \/ Decide([kind |-> "StartTurn"])
    \/ Decide([kind |-> "RequestCheckpoint"])

SpecDecide == InitEvolve /\ [][NextDecide]_vars

-----------------------------------------------------------------------------
(* shell/interpreter.ts                                                     *)

\* what the adapters of the context do during one command: the LLM adapter and
\* the approver return or throw, or the approver never answers; store "throw"
\* makes the first appendEvent call of the command throw
AdapterOutcomes ==
    [ llm : {"ok", "throw"},
      approval : {"approved", "rejected", "throw", "never"},
      store : {"ok", "throw"} ]

\* the adapters of a context that also has a file system and a test runner
FullOutcomes ==
    [ llm : {"ok", "throw"},
      approval : {"approved"},
      store : {"ok", "throw"},
      fs : {"ok", "throw"},
      tests : {"pass"},
      types : {"pass"} ]

\* ctx.workDir; a path is the sequence of its segments, "/" first when absolute
WorkDir == <<"/", "w">>

\* path.normalize on the segments: "." is dropped, ".." removes the last
\* segment and stays at the root
RECURSIVE normalize(_, _)
normalize(segs, acc) ==
    IF segs = << >> THEN acc
    ELSE normalize(Tail(segs),
                   IF Head(segs) = ".."
                   THEN (IF Len(acc) > 1 THEN SubSeq(acc, 1, Len(acc) - 1) ELSE acc)
                   ELSE IF Head(segs) = "." THEN acc
                   ELSE Append(acc, Head(segs)))

\* path.resolve(workDir, p): an absolute p replaces workDir
resolve(workDir, p) ==
    IF p # << >> /\ Head(p) = "/"
    THEN normalize(Tail(p), <<"/">>)
    ELSE normalize(p, workDir)

\* createHash('sha256').update(content).digest('hex')
sha256(content) == <<"sha256", content>>

Threw == [kind |-> "throw"]

\* an await that never settles
Pending == [kind |-> "pending"]

\* executeEffectImpl: the result of one effect, or Threw when the adapter throws
executeEffectImpl(effect, out) ==
    CASE effect.kind = "InvokeLLM" ->
           IF out.llm = "throw" THEN Threw
           ELSE [kind |-> "LLMResponse", content |-> "", toolUses |-> << >>, tokensUsed |-> 0]
      [] effect.kind = "WriteFile" ->
           IF out.fs = "throw" THEN Threw
           ELSE [kind |-> "FileWritten", path |-> effect.path, hash |-> sha256(effect.content)]
      [] effect.kind = "RunTests" ->
           [kind |-> "TestsRan", result |-> TestResult(out.tests = "pass", 80)]
      [] effect.kind = "CheckTypes" ->
           [kind |-> "TypesChecked", passed |-> (out.types = "pass"),
            errors |-> IF out.types = "pass" THEN << >> ELSE <<"e">>]
      [] effect.kind = "StartSpan"      -> [kind |-> "SpanStarted"]
      [] effect.kind = "RecordMetric"   -> [kind |-> "MetricRecorded", name |-> effect.name]
      [] effect.kind = "Log"            -> [kind |-> "Logged", level |-> effect.level]
      [] effect.kind = "EmitCheckpoint" ->
           [kind |-> "CheckpointEmitted", checkpointId |-> effect.summary.id]
      [] effect.kind = "WaitForApproval" ->
           IF out.approval = "throw" THEN Threw
           ELSE IF out.approval = "never" THEN Pending
           ELSE [kind |-> "ApprovalReceived", approved |-> (out.approval = "approved")]

\* the files fs.writeFile has written when executeEffects leaves with these
\* results: the full path of every WriteFile effect that has its result
filesWritten(effects, results) ==
    { resolve(WorkDir, effects[j].path) :
        j \in {i \in DOMAIN results : effects[i].kind = "WriteFile"} }

\* executeEffects going on with the next effect after a failure
RECURSIVE executeEffectsContinuing(_, _, _)
executeEffectsContinuing(effects, out, results) ==
    IF effects = << >> THEN [threw |-> FALSE, blocked |-> FALSE, results |-> results]
    ELSE LET r == executeEffectImpl(Head(effects), out) IN
         IF r.kind = "throw"
         THEN [executeEffectsContinuing(Tail(effects), out, results) EXCEPT !.threw = TRUE]
         ELSE IF r.kind = "pending"
         THEN [threw |-> FALSE, blocked |-> TRUE, results |-> results]
         ELSE executeEffectsContinuing(Tail(effects), out, Append(results, r))

\* executeEffects: in list order, the first failure aborts the batch; results
\* holds the results pushed so far, blocked tells that an await never settled
RECURSIVE executeEffects(_, _, _)
executeEffects(effects, out, results) ==
    IF effects = << >> THEN [threw |-> FALSE, blocked |-> FALSE, results |-> results]
    ELSE LET r == executeEffectImpl(Head(effects), out) IN
         IF r.kind = "throw" THEN [threw |-> TRUE, blocked |-> FALSE, results |-> results]
         ELSE IF r.kind = "pending"
         THEN [threw |-> FALSE, blocked |-> TRUE, results |-> results]
         ELSE executeEffects(Tail(effects), out, Append(results, r))

-----------------------------------------------------------------------------
(* SpecEffects: executeEffects called once on a batch of effects, with      *)
(* adapters that answer, throw or never settle.                             *)

\* effects in one batch
MaxBatch == 3

\* the effects decide can return
EffectsIn ==
    { Log("info", "m"),
      StartSpan("s"),
      RecordMetric("m"),
      InvokeLLM("p", 4000),
      [kind |-> "EmitCheckpoint",
       summary |-> CheckpointSummary("c1", createInitialState("p0", 0), 0)],
      [kind |-> "WaitForApproval", checkpointId |-> "c1", timeoutMs |-> 300000] }

Batches == UNION {[1 .. n -> EffectsIn] : n \in 0 .. MaxBatch}

InitEffects ==
    /\ state = createInitialState("p0", 0)
    /\ pc = "effects"
    /\ events = << >>
    /\ snapshots = << >>
    /\ clock = 0
    /\ maxTurns = 0
    /\ initial = createInitialState("p0", 0)
    /\ lastEvent = << >>
    /\ lastMem = << >>
    /\ iters = 0
    /\ llmTurns = [p \in Phase |-> 0]
    /\ allGreen = TRUE
    /\ restarts = 0
    /\ caps = NoCaps
    /\ lastCmd = << >>
    /\ passes = 0
    /\ extractions = 0

\* the call executeEffects(effects, ctx) whose outcome is run; a throw leaves
\* the call as a rejection of its promise
Ran(effects, out, run) ==
    /\ lastCmd' = << [ command |-> [kind |-> "executeEffects", adapters |-> out],
                       before |-> state,
                       effects |-> effects,
                       results |-> run.results,
                       threw |-> run.threw,
                       blocked |-> run.blocked,
                       applied |-> << >>,
                       unlogged |-> << >>,
                       escaped |-> run.threw ] >>
    /\ pc' = IF run.blocked THEN "waiting"
             ELSE IF run.threw THEN "rejected"
             ELSE "resolved"

Execute ==
    /\ pc = "effects"
    /\ \E effects \in Batches, out \in AdapterOutcomes :
          Ran(effects, out, executeEffects(effects, out, << >>))
    /\ UNCHANGED << state, events, snapshots, clock, maxTurns, initial, lastEvent,
                    lastMem, iters, llmTurns, allGreen, restarts, caps, passes,
                    extractions >>

NextEffects == Execute

SpecEffects == InitEffects /\ [][NextEffects]_vars

\* a[].find(a => a.path === path): <<>> when there is none
findArtifact(s, path) ==
    LET hits == {i \in DOMAIN s.artifacts : s.artifacts[i].path = path} IN
    IF hits = {} THEN << >>
    ELSE << s.artifacts[CHOOSE i \in hits : \A j \in hits : i <= j] >>

\* resultToEvents without the lookup of the path among the artifacts
resultToEventsAlwaysCreated(effect, result, s, rnd) ==
    LET timestamp == Date(rnd.now) IN
    CASE result.kind = "FileWritten" ->
           << [kind |-> "ArtifactCreated",
               artifact |-> Artifact(rnd.uuid, result.path, result.hash, s.phase, rnd.now),
               timestamp |-> timestamp] >>
      [] result.kind = "TestsRan" ->
           IF result.result.passed
           THEN << [kind |-> "TestsPassed", result |-> result.result, timestamp |-> timestamp] >>
           ELSE << [kind |-> "TestsFailed", result |-> result.result, timestamp |-> timestamp] >>
      [] result.kind = "TypesChecked" ->
           IF result.passed
           THEN << [kind |-> "TypeCheckPassed", timestamp |-> timestamp] >>
           ELSE << [kind |-> "TypeCheckFailed", errors |-> result.errors, timestamp |-> timestamp] >>
      [] OTHER -> << >>

resultToEvents(effect, result, s, rnd) ==
    LET timestamp == Date(rnd.now) IN
    CASE result.kind = "FileWritten" ->
           LET existingArtifact == findArtifact(s, result.path) IN
           IF existingArtifact # << >>
           THEN << [kind |-> "ArtifactUpdated", artifactId |-> existingArtifact[1].id,
                    newHash |-> result.hash, timestamp |-> timestamp] >>
           ELSE << [kind |-> "ArtifactCreated",
                    artifact |-> Artifact(rnd.uuid, result.path, result.hash, s.phase, rnd.now),
                    timestamp |-> timestamp] >>
      [] result.kind = "TestsRan" ->
           IF result.result.passed
           THEN << [kind |-> "TestsPassed", result |-> result.result, timestamp |-> timestamp] >>
           ELSE << [kind |-> "TestsFailed", result |-> result.result, timestamp |-> timestamp] >>
      [] result.kind = "TypesChecked" ->
           IF result.passed
           THEN << [kind |-> "TypeCheckPassed", timestamp |-> timestamp] >>
           ELSE << [kind |-> "TypeCheckFailed", errors |-> result.errors, timestamp |-> timestamp] >>
      [] OTHER -> << >>

-----------------------------------------------------------------------------
(* SpecMapping: resultToEvents called once on the result of an effect, in a *)
(* state reached through evolve by a bounded history of events.             *)

\* the adapters' answers under which every result kind is produced
MappingOutcomes ==
    [ llm : {"ok"},
      approval : {"approved", "rejected"},
      store : {"ok"},
      fs : {"ok"},
      tests : {"pass", "fail"},
      types : {"pass", "fail"} ]

\* effects of every kind the interpreter gives a result for here; "f1" is the
\* path of the artifact an ArtifactCreated event of the history records
MappingEffects ==
    EffectsIn
    \cup { [kind |-> "WriteFile", path |-> f, content |-> "c"] : f \in {"f1", "f2"} }
    \cup { [kind |-> "RunTests", coverage |-> TRUE], [kind |-> "CheckTypes"] }

\* resultToEvents(effect, result, state): pure, the state is left as it was
Converted(effect, result, rnd) ==
    /\ lastCmd' = << [ command |-> [kind |-> "resultToEvents"],
                       before |-> state,
                       effects |-> << effect >>,
                       results |-> << result >>,
                       threw |-> FALSE,
                       applied |-> resultToEvents(effect, result, state, rnd),
                       unlogged |-> << >>,
                       escaped |-> FALSE ] >>
    /\ pc' = "converted"

Convert ==
    /\ pc = "evolve"
    /\ \E effect \in MappingEffects, out \in MappingOutcomes, id \in ArtifactIds :
          Converted(effect, executeEffectImpl(effect, out), [uuid |-> id, now |-> clock])
    /\ UNCHANGED << state, events, snapshots, clock, maxTurns, initial, lastEvent,
                    lastMem, iters, llmTurns, allGreen, restarts, caps, passes,
                    extractions >>

NextMapping ==
    \/ History("ArtifactCreated")
    \/ History("ArtifactUpdated")
    \/ History("PhaseCompleted")
    \/ Convert

SpecMapping == InitEvolve /\ [][NextMapping]_vars

-----------------------------------------------------------------------------
(* persistence/event-log.ts                                                 *)

\* Date.prototype.toJSON, which JSON.stringify calls on a Date
toJSON(d) == IF d[1] = "Date" THEN Iso(d[2]) ELSE d

\* new Date(isoString)
reviveDate(d) == IF d[1] = "iso" THEN Date(d[2]) ELSE d

OptMap(o, F(_)) == IF o = << >> THEN << >> ELSE << F(o[1]) >>

\* JSON.stringify(event): every Date of the payload, at any depth, becomes a string
stringifyEvent(e) ==
    LET top == [e EXCEPT !.timestamp = toJSON(@)] IN
    CASE e.kind = "Initialized" ->
           [top EXCEPT !.checklist =
               Map(@, LAMBDA item :
                      [item EXCEPT !.completedAt = OptMap(@, LAMBDA d : toJSON(d))])]
      [] e.kind = "ArtifactCreated" ->
           [top EXCEPT !.artifact.createdAt = toJSON(@), !.artifact.updatedAt = toJSON(@)]
      [] e.kind = "CheckpointCreated" ->
           [top EXCEPT !.summary.createdAt = toJSON(@)]
      [] OTHER -> top

\* the row appendEvent inserts; its id is its position in the table
appendEvent(rows, e) ==
    Append(rows, [kind |-> e.kind, payload |-> stringifyEvent(e),
                  timestamp |-> toJSON(e.timestamp)])

\* JSON.parse(row.payload), then the top-level timestamp alone is revived
parseEvent(row) == [row.payload EXCEPT !.timestamp = reviveDate(@)]

\* getEvents(from): WHERE id >= from ORDER BY id ASC
getEvents(rows, from) ==
    [i \in 1 .. (IF Len(rows) >= from THEN Len(rows) - from + 1 ELSE 0) |->
        parseEvent(rows[from + i - 1])]

\* getEvents(from, to): WHERE id >= from AND id <= to ORDER BY id ASC
getEventsBetween(rows, from, to) ==
    LET last == IF to <= Len(rows) THEN to ELSE Len(rows) IN
    [i \in 1 .. (IF last >= from THEN last - from + 1 ELSE 0) |->
        parseEvent(rows[from + i - 1])]

\* the replacer of createSnapshot; JSON.stringify hands it the value toJSON returned
replacer(v) == IF v[1] = "Date" THEN <<"__type:Date", v[2]>> ELSE v

\* the reviver of getLatestSnapshot
reviver(v) == IF v[1] = "__type:Date" THEN Date(v[2]) ELSE v

\* F applied to every date of a State
MapDates(s, F(_)) ==
    LET summary(c) == [c EXCEPT !.createdAt = F(@)] IN
    [s EXCEPT !.startedAt = F(@),
              !.lastActivityAt = F(@),
              !.checklist = Map(@, LAMBDA item :
                                   [item EXCEPT !.completedAt = OptMap(@, F)]),
              !.artifacts = Map(@, LAMBDA a :
                                   [a EXCEPT !.createdAt = F(@), !.updatedAt = F(@)]),
              !.pendingCheckpoint = OptMap(@, summary),
              !.lastApprovedCheckpoint = OptMap(@, summary)]

stringifyState(s) == MapDates(s, LAMBDA d : replacer(toJSON(d)))

parseState(json) == MapDates(json, reviver)

createSnapshot(rows, s, atEventIndex) ==
    Append(rows, [atEventIndex |-> atEventIndex, state |-> stringifyState(s)])

\* ORDER BY at_event_index DESC LIMIT 1: <<>> when the table is empty
getLatestSnapshot(rows) ==
    IF rows = << >> THEN << >>
    ELSE LET i == CHOOSE i \in DOMAIN rows :
                     \A j \in DOMAIN rows : rows[j].atEventIndex <= rows[i].atEventIndex
         IN << [state |-> parseState(rows[i].state), atEventIndex |-> rows[i].atEventIndex] >>

\* new DefaultSnapshotPolicy(100)
SnapshotInterval == 100

\* shouldSnapshot looking at the phase transitions alone
shouldSnapshotOnPhaseOnly(eventCount, e) ==
    e.kind \in {"PhaseStarted", "PhaseCompleted"}

shouldSnapshot(eventCount, e) ==
    \/ eventCount % SnapshotInterval = 0
    \/ e.kind \in {"PhaseStarted", "PhaseCompleted"}
    \/ e.kind = "ConvergenceReached"

-----------------------------------------------------------------------------
(* orchestrator.ts.  A record  st  is what one command of the process reads  *)
(* and writes: the in-memory state, the two tables, and the course of the   *)
(* command (threw: an exception is propagating; escaped: it left            *)
(* processCommand; blocked: an await never settled; applied: the events     *)
(* applyEvent completed for; unlogged: the events evolve applied whose      *)
(* appendEvent threw).                                                      *)

\* applyEvent: evolve, then append, then maybe snapshot
applyEvent(st, e) ==
    LET newState == evolve(st.state, e)
        eventIndex == Len(st.events) + 1
    IN IF st.appendFails
       THEN [st EXCEPT !.state = newState,
                       !.appendFails = FALSE,
                       !.threw = TRUE,
                       !.unlogged = Append(@, e)]
       ELSE [st EXCEPT !.state = newState,
                       !.events = appendEvent(st.events, e),
                       !.snapshots = IF shouldSnapshot(eventIndex, e)
                                     THEN createSnapshot(st.snapshots, newState, eventIndex)
                                     ELSE st.snapshots,
                       !.last = <<e>>,
                       !.applied = Append(@, e)]

\* for (const event of events) await this.applyEvent(event)
RECURSIVE applyEvents(_, _)
applyEvents(st, evs) ==
    IF evs = << >> \/ st.threw THEN st
    ELSE applyEvents(applyEvent(st, Head(evs)), Tail(evs))

\* Orchestrator.resultsToEvents: every result is mapped against the state the
\* command started from
\* uuid() gives a value it has not given before: the k-th call made while
\* the results of one command are converted
freshUuid(rnd, k) == [rnd EXCEPT !.uuid = <<rnd.uuid, rnd.now, k>>]

\* resultsToEvents collecting the events from the last effect to the first
RECURSIVE resultsToEventsReversed(_, _, _, _)
resultsToEventsReversed(effects, results, s, rnd) ==
    IF effects = << >> \/ results = << >> THEN << >>
    ELSE resultsToEventsReversed(Tail(effects), Tail(results), s, rnd)
         \o resultToEvents(Head(effects), Head(results), s, freshUuid(rnd, Len(effects)))

RECURSIVE resultsToEvents(_, _, _, _)
resultsToEvents(effects, results, s, rnd) ==
    IF effects = << >> \/ results = << >> THEN << >>
    ELSE resultToEvents(Head(effects), Head(results), s, freshUuid(rnd, Len(effects)))
         \o resultsToEvents(Tail(effects), Tail(results), s, rnd)

ErrorOccurred(now) ==
    [kind |-> "ErrorOccurred", message |-> "m", recoverable |-> TRUE, timestamp |-> Date(now)]

\* what applyEvent throws inside the catch block leaves processCommand
escapes(caught) == [caught EXCEPT !.escaped = caught.threw]

\* the catch block of processCommand: applyEvent(ErrorOccurred)
catchError(tried, now) ==
    IF tried.threw
    THEN escapes(applyEvent([tried EXCEPT !.threw = FALSE], ErrorOccurred(now)))
    ELSE tried

\* the try block of processCommand once the effects are executed: map the
\* results to events and apply them; a failed effect throws
tryBlock(st, effects, run, rnd) ==
    IF run.threw THEN [st EXCEPT !.threw = TRUE]
    ELSE applyEvents(st, resultsToEvents(effects, run.results, st.state, rnd))

\* the course of a command whose effects ran as in run
afterEffects(st, effects, run, rnd) ==
    IF run.blocked THEN [st EXCEPT !.blocked = TRUE]
    ELSE catchError(tryBlock(st, effects, run, rnd), rnd.now)

\* processCommand: decide, execute, map, apply; an exception becomes ErrorOccurred
processCommand(command, st, rnd, out) ==
    LET effects == decide(command, st.state, rnd) IN
    afterEffects(st, effects, executeEffects(effects, out, << >>), rnd)

\* whether the effects of the command fail under the adapters' answers
commandThrows(command, s, rnd, out) ==
    executeEffects(decide(command, s, rnd), out, << >>).threw

\* whether the command gets as far as executing an InvokeLLM effect
invokesLLM(command, s, rnd) ==
    \E i \in DOMAIN decide(command, s, rnd) : decide(command, s, rnd)[i].kind = "InvokeLLM"

shouldStop(s, limit) ==
    \/ hasConverged(s)
    \/ s.turn >= limit
    \/ s.converged

\* tryResume: the state the process goes on with
tryResume(s, eventRows, snapshotRows) ==
    LET snapshot == getLatestSnapshot(snapshotRows) IN
    IF snapshot # << >>
    THEN replay(getEvents(eventRows, snapshot[1].atEventIndex + 1), snapshot[1].state)
    ELSE s

checkPhaseAdvancementDue(s) == isPhaseChecklistComplete(s, s.phase)

-----------------------------------------------------------------------------
(* Spec: processes of Orchestrator.run on one event store                   *)

\* adapter failures allowed in a behaviour that counts many iterations
MaxFailures == 2

\* runTurn iterations counted in such a behaviour
MaxIters == 51

\* events appended in a behaviour that counts few iterations
MaxEvents == 101

\* runTurn iterations counted in such a behaviour
FewIters == 1

\* processes that stop and are followed by a new one
MaxRestarts == 1

\* options.maxTurns is drawn from 0 .. MaxTurnsOpt
MaxTurnsOpt == 1

Prompt == "p0"

\* the adapters of a behaviour that appends many events: the store never fails
\* and the approver always answers
ReliableStore ==
    {out \in AdapterOutcomes : out.store = "ok" /\ out.approval \in {"approved", "throw"}}

Init ==
    /\ state = createInitialState(Prompt, 0)
    /\ initial = createInitialState(Prompt, 0)
    /\ pc = "start"
    /\ events = << >>
    /\ snapshots = << >>
    /\ clock = 1
    /\ maxTurns \in 0 .. MaxTurnsOpt
    /\ lastEvent = << >>
    /\ lastMem = << >>
    /\ iters = 0
    /\ llmTurns = [p \in Phase |-> 0]
    /\ allGreen = TRUE
    /\ restarts = 0
    /\ caps \in { [ events |-> MaxFailures, iters |-> MaxIters,
                    adapters |-> AdapterOutcomes, restartFrom |-> 0 ],
                  [ events |-> MaxEvents, iters |-> FewIters,
                    adapters |-> ReliableStore, restartFrom |-> MaxEvents - 1 ] }
    /\ lastCmd = << >>
    /\ passes = 0
    /\ extractions = 0

\* what a command starts from, under the adapters' answers out
Store(out) ==
    [ state |-> state, events |-> events, snapshots |-> snapshots, last |-> lastEvent,
      appendFails |-> (out.store = "throw"), threw |-> FALSE, escaped |-> FALSE,
      blocked |-> FALSE, applied |-> << >>, unlogged |-> << >> ]

\* the process after a command that took the course  after : next is where
\* run() goes on when processCommand returns
\* the requirements-extraction calls made so far, after a command whose
\* effects gave these results: Initialize is the command that invokes it
extractionsAfter(n, command, results) ==
    IF /\ command.kind = "Initialize"
       /\ \E j \in DOMAIN results : results[j].kind = "LLMResponse"
    THEN n + 1 ELSE n

Completes(command, effects, run, after, next) ==
    /\ run.threw => Len(events) < caps.events
    /\ extractions' = extractionsAfter(extractions, command, run.results)
    /\ state' = after.state
    /\ events' = after.events
    /\ snapshots' = after.snapshots
    /\ lastEvent' = after.last
    /\ clock' = IF after.applied # << >> \/ after.unlogged # << >>
                THEN clock + 1 ELSE clock
    /\ allGreen' = (allGreen /\ ~run.threw /\ ~after.blocked /\ after.unlogged = << >>)
    /\ pc' = IF after.blocked THEN "waiting"
             ELSE IF after.escaped THEN "crashed"
             ELSE next
    /\ lastCmd' = << [ command |-> command, before |-> state, effects |-> effects,
                       results |-> run.results, threw |-> run.threw,
                       applied |-> after.applied, unlogged |-> after.unlogged,
                       escaped |-> after.escaped ] >>

\* the command whose effects ran as in run
Executed(command, effects, run, rnd, out, next) ==
    Completes(command, effects, run, afterEffects(Store(out), effects, run, rnd), next)

\* the command decide answers with effects
Decided(command, effects, rnd, out, next) ==
    Executed(command, effects, executeEffects(effects, out, << >>), rnd, out, next)

\* one processCommand of the running process, under every answer of the adapters
Process(command, next) ==
    \E out \in caps.adapters, id \in CheckpointIds :
        Decided(command, decide(command, state, [uuid |-> id, now |-> clock]),
                [uuid |-> id, now |-> clock], out, next)

\* run(): await this.tryResume()
TryResume ==
    /\ pc = "start"
    /\ state' = tryResume(state, events, snapshots)
    /\ pc' = "init"
    /\ UNCHANGED << events, snapshots, clock, maxTurns, initial, lastEvent, lastMem,
                    iters, llmTurns, allGreen, restarts, caps, lastCmd, passes,
                    extractions >>

\* run(): if (this.state.turn === 0) processCommand(Initialize)
Initialize ==
    /\ pc = "init"
    /\ IF state.turn = 0
       THEN Process([kind |-> "Initialize", prompt |-> Prompt], "loop")
       ELSE /\ pc' = "loop"
            /\ UNCHANGED << state, events, snapshots, lastEvent, clock, allGreen, lastCmd,
                            extractions >>
    /\ UNCHANGED << maxTurns, initial, lastMem, iters, llmTurns, restarts, caps, passes >>

\* run(): the loop is left when shouldStop() holds
Finish ==
    /\ pc = "loop"
    /\ shouldStop(state, maxTurns)
    /\ pc' = "done"
    /\ UNCHANGED << state, events, snapshots, clock, maxTurns, initial, lastEvent,
                    lastMem, iters, llmTurns, allGreen, restarts, caps, lastCmd, passes,
                    extractions >>

\* runTurn, step 1: processCommand(StartTurn)
StartTurn ==
    /\ pc = "loop"
    /\ ~shouldStop(state, maxTurns)
    /\ Process([kind |-> "StartTurn"], "checkpoint")
    /\ iters' = Min(iters + 1, caps.iters)
    /\ llmTurns' = IF invokesLLM([kind |-> "StartTurn"], state, [uuid |-> "c1", now |-> clock])
                   THEN [llmTurns EXCEPT ![state.phase] = Min(@ + 1, caps.iters)]
                   ELSE llmTurns
    /\ UNCHANGED << maxTurns, initial, lastMem, restarts, caps, passes >>

\* runTurn, step 2: if (this.state.turn % 10 === 0) processCommand(RequestCheckpoint)
RequestCheckpoint ==
    /\ pc = "checkpoint"
    /\ IF state.turn % 10 = 0
       THEN Process([kind |-> "RequestCheckpoint"], "advance")
       ELSE /\ pc' = "advance"
            /\ UNCHANGED << state, events, snapshots, lastEvent, clock, allGreen, lastCmd,
                            extractions >>
    /\ UNCHANGED << maxTurns, initial, lastMem, iters, llmTurns, restarts, caps, passes >>

\* runTurn, steps 3 and 4: checkPhaseAdvancement, then the progress callback
CheckPhaseAdvancement ==
    /\ pc = "advance"
    /\ IF checkPhaseAdvancementDue(state)
       THEN Process([kind |-> "AdvancePhase"], "loop")
       ELSE /\ pc' = "loop"
            /\ UNCHANGED << state, events, snapshots, lastEvent, clock, allGreen, lastCmd,
                            extractions >>
    /\ UNCHANGED << maxTurns, initial, lastMem, iters, llmTurns, restarts, caps, passes >>

\* the process stops (a crash anywhere, or the exit after run returned or
\* rejected) and a new Orchestrator is constructed on the same event store
Restart ==
    /\ pc \in {"start", "init", "loop", "checkpoint", "advance", "done",
                "waiting", "crashed"}
    /\ restarts < MaxRestarts
    /\ Len(events) >= caps.restartFrom
    /\ restarts' = restarts + 1
    /\ lastMem' = <<state>>
    /\ state' = createInitialState(Prompt, clock)
    /\ initial' = createInitialState(Prompt, clock)
    /\ clock' = clock + 1
    /\ pc' = "start"
    /\ iters' = 0
    /\ llmTurns' = [p \in Phase |-> 0]
    /\ allGreen' = TRUE
    /\ lastEvent' = << >>
    /\ lastCmd' = << >>
    /\ UNCHANGED << events, snapshots, maxTurns, caps, passes,
                    extractions >>

Step ==
    \/ TryResume
    \/ Initialize
    \/ Finish
    \/ StartTurn
    \/ RequestCheckpoint
    \/ CheckPhaseAdvancement

Next == Step \/ Restart

Spec == Init /\ [][Next]_vars

\* a process whose adapters return goes on with its next step
SpecFair == Spec /\ WF_vars(Step)

-----------------------------------------------------------------------------
(* SpecCommand: processCommand called on a bounded sequence of commands,    *)
(* among them ProcessLLMResponse, whose effects write files.                *)

\* commands processed in one behaviour
MaxCommands == 2

\* the tool uses an LLM response can carry
ToolUse(tool, path, content) ==
    [tool |-> tool, input |-> [path |-> path, content |-> content]]

\* the content "" is a content field that is present and empty
ToolUsesIn ==
    { ToolUse("write_file", <<"a">>, "c"),
      ToolUse("write_file", <<"..", "x">>, "c"),
      ToolUse("write_file", <<"b">>, ""),
      ToolUse("read_file", <<"a">>, "c") }

\* tool uses in one response
MaxToolUses == 2

ResponsesIn ==
    { [content |-> "", toolUses |-> t, tokensUsed |-> 0] :
        t \in UNION {[1 .. n -> ToolUsesIn] : n \in 0 .. MaxToolUses} }

CommandsIn ==
    { [kind |-> "Initialize", prompt |-> Prompt],
      [kind |-> "StartTurn"],
      [kind |-> "AdvancePhase"],
      [kind |-> "RequestCheckpoint"] }
    \cup { [kind |-> "ProcessLLMResponse", response |-> r] : r \in ResponsesIn }

InitCommand ==
    /\ state = createInitialState(Prompt, 0)
    /\ pc = "command"
    /\ events = << >>
    /\ snapshots = << >>
    /\ clock = 0
    /\ maxTurns = 0
    /\ initial = createInitialState(Prompt, 0)
    /\ lastEvent = << >>
    /\ lastMem = << >>
    /\ iters = 0
    /\ llmTurns = [p \in Phase |-> 0]
    /\ allGreen = TRUE
    /\ restarts = 0
    /\ caps = [events |-> MaxEvents, iters |-> MaxCommands, adapters |-> FullOutcomes,
               restartFrom |-> 0]
    /\ lastCmd = << >>
    /\ passes = 0
    /\ extractions = 0

\* await this.processCommand(command)
ProcessCommand ==
    /\ pc = "command"
    /\ iters < MaxCommands
    /\ \E command \in CommandsIn : Process(command, "command")
    /\ iters' = iters + 1
    /\ UNCHANGED << maxTurns, initial, lastMem, llmTurns, restarts, caps, passes >>

NextCommand == ProcessCommand

SpecCommand == InitCommand /\ [][NextCommand]_vars

-----------------------------------------------------------------------------
(* SpecAdvance: applyEvent called on a bounded history of events, then      *)
(* checkPhaseAdvancement.                                                   *)

\* the store and the memory after applyEvent returned
Returned(after) ==
    /\ state' = after.state
    /\ events' = after.events
    /\ snapshots' = after.snapshots
    /\ lastEvent' = after.last

\* await this.applyEvent(e) for an event of kind k, on a working store
ApplyEvent(k) ==
    /\ pc = "command"
    /\ clock < MaxHistory
    /\ \E e \in EventsOfKind(k, state, clock + 1) :
          Returned(applyEvent(Store([store |-> "ok"]), e))
    /\ clock' = clock + 1
    /\ UNCHANGED << pc, maxTurns, initial, lastMem, iters, llmTurns, allGreen,
                    restarts, caps, lastCmd, passes, extractions >>

\* checkPhaseAdvancement: processCommand(AdvancePhase) when the checklist of
\* the current phase is non-empty and complete
AdvancePhase ==
    /\ pc = "command"
    /\ checkPhaseAdvancementDue(state)
    /\ Process([kind |-> "AdvancePhase"], "advanced")
    /\ UNCHANGED << maxTurns, initial, lastMem, iters, llmTurns, restarts, caps, passes >>

NextAdvance ==
    \/ ApplyEvent("Initialized")
    \/ ApplyEvent("ChecklistItemCompleted")
    \/ ApplyEvent("TurnStarted")
    \/ ApplyEvent("PhaseCompleted")
    \/ AdvancePhase

SpecAdvance == InitCommand /\ [][NextAdvance]_vars

-----------------------------------------------------------------------------
(* SpecSnapshot: applyEvent called on a working store that holds either no  *)
(* event or the ErrorOccurred events of Logged failed commands, so that an  *)
(* event receives the index SnapshotInterval within a short history.        *)

Logged == 98

\* the store and the memory after n commands that each appended ErrorOccurred
logged(n) ==
    applyEvents([ state |-> createInitialState(Prompt, 0), events |-> << >>,
                  snapshots |-> << >>, last |-> << >>, appendFails |-> FALSE,
                  threw |-> FALSE, escaped |-> FALSE, blocked |-> FALSE,
                  applied |-> << >>, unlogged |-> << >> ],
                [i \in 1 .. n |-> ErrorOccurred(0)])

InitSnapshot ==
    /\ \E n \in {0, Logged} :
          /\ state = logged(n).state
          /\ events = logged(n).events
          /\ snapshots = logged(n).snapshots
          /\ lastEvent = logged(n).last
    /\ pc = "command"
    /\ clock = 0
    /\ maxTurns = 0
    /\ initial = createInitialState(Prompt, 0)
    /\ lastMem = << >>
    /\ iters = 0
    /\ llmTurns = [p \in Phase |-> 0]
    /\ allGreen = TRUE
    /\ restarts = 0
    /\ caps = [events |-> MaxEvents, iters |-> MaxCommands, adapters |-> FullOutcomes,
               restartFrom |-> 0]
    /\ lastCmd = << >>
    /\ passes = 0
    /\ extractions = 0

NextSnapshot ==
    \/ ApplyEvent("TurnStarted")
    \/ ApplyEvent("PhaseStarted")
    \/ ApplyEvent("PhaseCompleted")
    \/ ApplyEvent("ConvergenceReached")
    \/ ApplyEvent("ErrorOccurred")

SpecSnapshot == InitSnapshot /\ [][NextSnapshot]_vars

-----------------------------------------------------------------------------
(* Properties of Orchestrator.run (Spec, SpecFair)                          *)

\* the wall-clock fields of createInitialState set aside: startedAt, and
\* lastActivityAt as long as no event has been applied (k = 0)
wallClockAside(s, k) ==
    [s EXCEPT !.startedAt = Date(0),
              !.lastActivityAt = IF k = 0 THEN Date(0) ELSE @]

startedAtReadingAside(s) == [s EXCEPT !.startedAt = << @[1], 0 >>]

\* C2: replay equivalence.  After every applyEvent of a process that returned,
\* the in-memory state equals replay(E, initial) for E the full list of stored
\* events in id order and initial a fresh initial state.
C2_ReplayEquivalence ==
    (lastEvent # << >> /\ pc # "crashed") =>
        startedAtReadingAside(state)
            = startedAtReadingAside(replay(getEvents(events, 1), initial))

\* C3: termination at the turn limit.  The main loop of a run starts at most
\* maxTurns runTurn iterations.
C3_TurnLimit == iters <= maxTurns

\* C4: convergence under green signals.  A process all of whose adapter calls
\* succeed, and which the turn limit does not stop first, eventually reaches
\* a state with hasConverged.
C4_GreenConverges ==
    <>(~allGreen \/ state.turn >= maxTurns \/ hasConverged(state))

\* C5: per-phase budget in the loop.  For every phase p, the StartTurn commands
\* processed in phase p that executed an InvokeLLM effect number at most the
\* maxTurns of p's budget entry.
C5_PhaseBudget ==
    \A p \in Phase :
        findBudget(state, p) # << >> => llmTurns[p] <= findBudget(state, p)[1].maxTurns

-----------------------------------------------------------------------------
(* Properties of evolve over arbitrary event sequences (SpecEvolve)         *)

\* C6: budget invariant.  In every state obtained from createInitialState by
\* applying events through evolve, every budget entry has
\* usedTurns <= maxTurns.
C6_BudgetInvariant ==
    \A i \in 1..Len(state.budgets) :
        state.budgets[i].usedTurns <= state.budgets[i].maxTurns

\* C7: turn monotonicity.  No event of any kind makes evolve lower the turn.
C7_TurnMonotone == [][state'.turn >= state.turn]_vars

\* C8: no phase regression.  No event of any kind makes evolve move the phase
\* to an earlier position of PHASE_ORDER.
C8_NoPhaseRegression == [][indexOf(state'.phase) >= indexOf(state.phase)]_vars

\* exactly one TurnBudget entry for each of the six phases
oneBudgetPerPhase(s) ==
    \A p \in Phase :
        Cardinality({i \in 1..Len(s.budgets) : s.budgets[i].phase = p}) = 1

\* C9: one budget per phase.  From a state with exactly one budget entry for
\* each of the six phases, evolve leads to a state with exactly one budget
\* entry for each of the six phases, whatever the event.
C9_OneBudgetPerPhase ==
    [][oneBudgetPerPhase(state) => oneBudgetPerPhase(state')]_vars

\* C10: converged flag invariant.  In every state obtained from
\* createInitialState by applying events through evolve, converged = true
\* implies overallScore >= 0.9 and convergenceStreak >= 3.
C10_ConvergedFlag ==
    state.converged =>
        /\ state.confidence.overallScore >= CONVERGENCE_THRESHOLD
        /\ state.convergenceStreak >= CONVERGENCE_STREAK_REQUIRED

\* C11: convergence against the derived score.  In every state reached through
\* evolve, hasConverged implies that the score recomputed from the five
\* confidence inputs is >= 0.9 and the streak is >= 3.
C11_DerivedScore ==
    hasConverged(state) =>
        /\ calculateOverallConfidence(state.confidence) >= CONVERGENCE_THRESHOLD
        /\ state.convergenceStreak >= CONVERGENCE_STREAK_REQUIRED

\* the checklist of s holds a completed item with this id
completedItem(s, id) ==
    \E i \in DOMAIN s.checklist : s.checklist[i].id = id /\ s.checklist[i].completed

\* C12: checklist monotonicity.  An item completed in a state exists and is
\* completed in the state evolve returns, whatever the event.
C12_ChecklistMonotone ==
    [][\A id \in ItemIds : completedItem(state, id) => completedItem(state', id)]_vars

\* C13: three consecutive green signals.  Starting from a streak of 0, the
\* streak always equals the number of TestsPassed events applied since the last
\* TestsFailed or TypeCheckFailed event, so hasConverged holds only after at
\* least three such TestsPassed events.
C13_ThreeGreenSignals ==
    /\ state.convergenceStreak = passes
    /\ hasConverged(state) => passes >= CONVERGENCE_STREAK_REQUIRED

\* hasConverged right after the third TestsPassed event in a row
C13_Witness ==
    /\ hasConverged(state)
    /\ passes = CONVERGENCE_STREAK_REQUIRED
    /\ lastEvent # << >>
    /\ lastEvent[1].kind = "TestsPassed"

-----------------------------------------------------------------------------
(* Properties of calculateOverallConfidence (SpecScore)                     *)

\* the score as the specification words it, in 1/ScoreUnit: 0 when typesSafe
\* or schemaValid is false, 0.3 when testsPass is false, otherwise
\* 0.5 + min(coverage / 80, 1) * 0.25 + (0.25 if checklistComplete)
scoreAsSpecified(c) ==
    IF ~(c.typesSafe /\ c.schemaValid) THEN 0
    ELSE IF ~c.testsPass THEN (3 * ScoreUnit) \div 10
    ELSE (5 * ScoreUnit) \div 10
         + (Min(c.coverage * ScoreUnit, 80 * ScoreUnit) \div 80) \div 4
         + (IF c.checklistComplete THEN (25 * ScoreUnit) \div 100 ELSE 0)

\* C14: score function.  Whenever an evolver has recomputed the score, it is
\* the specified function of the five inputs, lies in [0, 1], and is >= 0.9
\* only when the three gates and checklistComplete are all true.
C14_ScoreFunction ==
    (lastEvent # << >> /\ lastEvent[1].kind \in Recalculating) =>
        LET c == state.confidence IN
        /\ c.overallScore = scoreAsSpecified(c)
        /\ c.overallScore >= 0
        /\ c.overallScore <= ScoreUnit
        /\ c.overallScore >= CONVERGENCE_THRESHOLD =>
               (c.typesSafe /\ c.schemaValid /\ c.testsPass /\ c.checklistComplete)

\* a recomputed score >= 0.9 reached with a coverage below 80
C14_Witness ==
    /\ lastEvent # << >>
    /\ lastEvent[1].kind = "TestsPassed"
    /\ state.confidence.coverage < 80
    /\ state.confidence.overallScore >= CONVERGENCE_THRESHOLD

-----------------------------------------------------------------------------
(* Properties of decide (SpecDecide)                                        *)

\* C15: checkpoint single-flight.  decide(RequestCheckpoint) on a state whose
\* pendingCheckpoint is set returns exactly one Log effect of level warn, and
\* neither an EmitCheckpoint nor a WaitForApproval effect.
C15_SingleFlight ==
    (/\ lastCmd # << >>
     /\ lastCmd[1].command.kind = "RequestCheckpoint"
     /\ lastCmd[1].before.pendingCheckpoint # << >>) =>
        /\ Len(lastCmd[1].effects) = 1
        /\ lastCmd[1].effects[1].kind = "Log"
        /\ lastCmd[1].effects[1].level = "warn"
        /\ \A i \in DOMAIN lastCmd[1].effects :
              lastCmd[1].effects[i].kind \notin {"EmitCheckpoint", "WaitForApproval"}

\* RequestCheckpoint has been decided while a checkpoint was pending
C15_Witness ==
    /\ pc = "decided"
    /\ lastCmd # << >>
    /\ lastCmd[1].command.kind = "RequestCheckpoint"
    /\ lastCmd[1].before.pendingCheckpoint # << >>
    /\ lastCmd[1].before.pendingCheckpoint[1].id = "c2"

-----------------------------------------------------------------------------
(* Properties of Orchestrator.processCommand (Spec, SpecFair)               *)

\* the WaitForApproval effects of the command handled last whose adapter
\* call returned an answer
answered ==
    IF lastCmd = << >> THEN {}
    ELSE {i \in DOMAIN lastCmd[1].effects :
            /\ lastCmd[1].effects[i].kind = "WaitForApproval"
            /\ i \in DOMAIN lastCmd[1].results
            /\ lastCmd[1].results[i].kind = "ApprovalReceived"}

\* the event kind the specification names for an answer
outcomeKind(result) ==
    IF result.approved THEN "CheckpointApproved" ELSE "CheckpointRejected"

\* C16: checkpoint outcome is recorded.  After a RequestCheckpoint whose
\* WaitForApproval returned an answer, a CheckpointApproved or
\* CheckpointRejected event for that checkpoint id has been appended, and
\* state.pendingCheckpoint is unset.
C16_OutcomeRecorded ==
    \A i \in answered :
        /\ \E j \in DOMAIN lastCmd[1].applied :
              /\ lastCmd[1].applied[j].kind = outcomeKind(lastCmd[1].results[i])
              /\ lastCmd[1].applied[j].checkpointId = lastCmd[1].effects[i].checkpointId
        /\ state.pendingCheckpoint = << >>

\* C18: exception containment.  When an effect execution or an event
\* application threw inside processCommand, exactly one ErrorOccurred event
\* with recoverable = true was appended for the command and nothing else,
\* processCommand did not throw, and the loop goes on.
C18_ExceptionContained ==
    (lastCmd # << >> /\ (lastCmd[1].threw \/ lastCmd[1].unlogged # << >>)) =>
        /\ Len(lastCmd[1].applied) = 1
        /\ lastCmd[1].applied[1].kind = "ErrorOccurred"
        /\ lastCmd[1].applied[1].recoverable
        /\ ~lastCmd[1].escaped
        /\ pc # "crashed"

\* C19: append is the linearization point.  When appendEvent failed for the
\* only event of a command, the in-memory state is the state before the
\* command.
C19_AppendLinearizes ==
    (/\ lastCmd # << >>
     /\ lastCmd[1].unlogged # << >>
     /\ lastCmd[1].applied = << >>) =>
        state = lastCmd[1].before

\* C17: approval timeout.  A WaitForApproval whose approver never answers
\* still completes (as a rejection, once timeoutMs has elapsed), so the
\* processing of RequestCheckpoint does not block the loop forever.
C17_ApprovalTimeout == (pc = "waiting") ~> (pc # "waiting")

-----------------------------------------------------------------------------
(* Properties of executeEffects (SpecEffects)                               *)

\* the result kind that belongs to an effect
resultKindOf(effect) ==
    CASE effect.kind = "InvokeLLM"       -> "LLMResponse"
      [] effect.kind = "StartSpan"       -> "SpanStarted"
      [] effect.kind = "RecordMetric"    -> "MetricRecorded"
      [] effect.kind = "Log"             -> "Logged"
      [] effect.kind = "EmitCheckpoint"  -> "CheckpointEmitted"
      [] effect.kind = "WaitForApproval" -> "ApprovalReceived"

\* the adapter behind the effect throws
throwsOn(effect, adapters) ==
    \/ effect.kind = "InvokeLLM" /\ adapters.llm = "throw"
    \/ effect.kind = "WaitForApproval" /\ adapters.approval = "throw"

\* the adapter behind the effect never settles
stallsOn(effect, adapters) ==
    effect.kind = "WaitForApproval" /\ adapters.approval = "never"

\* C20: sequential batch with abort.  executeEffects runs the effects in list
\* order: result j belongs to effect j; when the effect at position i throws,
\* the effects before i have run, none after i has, and the exception
\* propagates; on success there are as many results as effects.
C20_SequentialBatch ==
    (lastCmd # << >> /\ lastCmd[1].command.kind = "executeEffects") =>
        LET r == lastCmd[1]
            n == Len(r.results)
            adapters == r.command.adapters
        IN /\ n <= Len(r.effects)
           /\ \A j \in 1 .. n :
                 /\ r.results[j].kind = resultKindOf(r.effects[j])
                 /\ ~throwsOn(r.effects[j], adapters)
                 /\ ~stallsOn(r.effects[j], adapters)
           /\ r.threw => /\ n < Len(r.effects)
                         /\ throwsOn(r.effects[n + 1], adapters)
                         /\ r.escaped
           /\ r.blocked => /\ n < Len(r.effects)
                           /\ stallsOn(r.effects[n + 1], adapters)
           /\ (~r.threw /\ ~r.blocked) => n = Len(r.effects)

\* a batch of three whose second effect threw after the first had run
C20_Witness ==
    /\ pc = "rejected"
    /\ lastCmd # << >>
    /\ lastCmd[1].command.kind = "executeEffects"
    /\ Len(lastCmd[1].effects) = 3
    /\ Len(lastCmd[1].results) = 1
    /\ lastCmd[1].threw

-----------------------------------------------------------------------------
(* Properties of the event store under processCommand (SpecCommand)         *)

\* the path of the file an artifact event is about, in the state before
pathOf(e, before) ==
    IF e.kind = "ArtifactCreated" THEN e.artifact.path
    ELSE LET hits == {i \in DOMAIN before.artifacts : before.artifacts[i].id = e.artifactId}
         IN before.artifacts[CHOOSE i \in hits : TRUE].path

\* the artifact events among the events a command applied
RECURSIVE artifactPaths(_, _)
artifactPaths(applied, before) ==
    IF applied = << >> THEN << >>
    ELSE (IF Head(applied).kind \in {"ArtifactCreated", "ArtifactUpdated"}
          THEN << pathOf(Head(applied), before) >> ELSE << >>)
         \o artifactPaths(Tail(applied), before)

\* the paths of the FileWritten results, in the order of their effects
RECURSIVE writtenPaths(_)
writtenPaths(results) ==
    IF results = << >> THEN << >>
    ELSE (IF Head(results).kind = "FileWritten" THEN << Head(results).path >> ELSE << >>)
         \o writtenPaths(Tail(results))

\* C21: event ordering.  Every appendEvent gives the new row the next id
\* above all ids given before; getEvents returns the rows in ascending id
\* order; the events of one command are appended contiguously, in the order
\* of the effects that produced them.
C21_EventOrdering ==
    [][ LET n == Len(events)
            r == lastCmd'[1]
            m == Len(r.applied)
        IN /\ Len(events') = n + m
           /\ SubSeq(events', 1, n) = events
           /\ \A j \in 1 .. m :
                 /\ events'[n + j] = appendEvent(<< >>, r.applied[j])[1]
                 /\ getEvents(events', 1)[n + j] = parseEvent(events'[n + j])
           /\ Len(getEvents(events', 1)) = n + m
           /\ r.unlogged = << >> =>
                 artifactPaths(r.applied, r.before) = writtenPaths(r.results) ]_vars

\* one command has appended two events, for two different files
C21_Witness ==
    /\ lastCmd # << >>
    /\ lastCmd[1].command.kind = "ProcessLLMResponse"
    /\ lastCmd[1].unlogged = << >>
    /\ Len(lastCmd[1].applied) = 2
    /\ Len(events) >= 3
    /\ artifactPaths(lastCmd[1].applied, lastCmd[1].before) = << <<"..", "x">>, <<"a">> >>

-----------------------------------------------------------------------------
(* Properties of the snapshots written by Orchestrator.run (Spec)           *)

\* C22: snapshot consistency.  Every snapshot row (atEventIndex = k, state)
\* reads back, through getLatestSnapshot's parsing, as replay(events 1..k,
\* initial), the state that was passed to createSnapshot, and
\* getLatestSnapshot returns the row with the greatest atEventIndex.
C22_SnapshotConsistency ==
    \A i \in DOMAIN snapshots :
        LET k == snapshots[i].atEventIndex IN
        /\ k <= Len(events)
        /\ getLatestSnapshot(snapshots)[1].atEventIndex >= k
        /\ startedAtReadingAside(parseState(snapshots[i].state))
             = startedAtReadingAside(replay(SubSeq(getEvents(events, 1), 1, k), initial))

\* C23: event round-trip.  When appendEvent(e) returned index i,
\* getEvents(i, i) returns exactly one event and it equals e, every date of
\* it being a date again.
C23_EventRoundTrip ==
    lastCmd # << >> =>
        \A j \in DOMAIN lastCmd[1].applied :
            LET i == Len(events) - Len(lastCmd[1].applied) + j IN
            getEventsBetween(events, i, i) = << lastCmd[1].applied[j] >>

-----------------------------------------------------------------------------
(* Properties of Orchestrator.run across restarts (Spec)                    *)

\* C24: at-most-once initialization across restarts.  Over all the processes
\* of a session on one event store, the requirements-extraction InvokeLLM
\* effect of Initialize is executed at most once.
C24_InitializeOnce == extractions <= 1

-----------------------------------------------------------------------------
(* Properties of the checkpoint evolvers (SpecEvolve)                       *)

\* no checkpoint with this id is pending
notPending(s, id) ==
    \/ s.pendingCheckpoint = << >>
    \/ s.pendingCheckpoint[1].id # id

\* C25: idempotent approval.  CheckpointApproved{c} applied right after
\* CheckpointApproved{c} leaves the state unchanged, and CheckpointApproved or
\* CheckpointRejected with an id that is not the pending checkpoint's (or
\* with none pending) leaves the state unchanged.
C25_IdempotentApproval ==
    [][ (lastEvent' # << >>
         /\ lastEvent'[1].kind \in {"CheckpointApproved", "CheckpointRejected"}) =>
           /\ notPending(state, lastEvent'[1].checkpointId) => state' = state
           /\ (/\ lastEvent # << >>
               /\ lastEvent[1].kind = "CheckpointApproved"
               /\ lastEvent'[1].kind = "CheckpointApproved"
               /\ lastEvent'[1].checkpointId = lastEvent[1].checkpointId)
                  => state' = state ]_vars

\* CheckpointApproved{c} has been applied a second time: c is the approved
\* checkpoint, none is pending, and the state keeps the time of the first
C25_Witness ==
    /\ lastEvent # << >>
    /\ lastEvent[1].kind = "CheckpointApproved"
    /\ state.pendingCheckpoint = << >>
    /\ state.lastApprovedCheckpoint # << >>
    /\ state.lastApprovedCheckpoint[1].id = lastEvent[1].checkpointId
    /\ state.lastActivityAt # lastEvent[1].timestamp

-----------------------------------------------------------------------------
(* Properties of decide as a function (SpecDecide)                          *)

\* C26: decider determinism.  Two calls of decide on the same command and
\* the same state return equal effect lists.
C26_DeciderDeterminism ==
    (lastCmd # << >> /\ pc = "decided") => lastCmd[1].again = lastCmd[1].effects

-----------------------------------------------------------------------------
(* Properties of the files written under processCommand (SpecCommand)       *)

\* the full path lies in dir or below it
inside(dir, full) ==
    /\ Len(full) >= Len(dir)
    /\ SubSeq(full, 1, Len(dir)) = dir

\* C27: write containment.  Every file the interpreter has written for a
\* command lies inside workDir.
C27_WriteContainment ==
    lastCmd # << >> =>
        \A full \in filesWritten(lastCmd[1].effects, lastCmd[1].results) :
            inside(WorkDir, full)

-----------------------------------------------------------------------------
(* Properties of checkPhaseAdvancement (SpecAdvance)                        *)

\* the phase after p in PHASE_ORDER; p when it is the last
nextPhase(p) ==
    LET i == CHOOSE i \in DOMAIN PHASE_ORDER : PHASE_ORDER[i] = p IN
    IF i < Len(PHASE_ORDER) THEN PHASE_ORDER[i + 1] ELSE p

\* the checklist of the current phase of s is non-empty and fully completed
currentChecklistDone(s) ==
    /\ \E i \in DOMAIN s.checklist : s.checklist[i].phase = s.phase
    /\ \A i \in DOMAIN s.checklist :
          s.checklist[i].phase = s.phase => s.checklist[i].completed

\* C28: phase advancement takes effect.  After AdvancePhase was processed in
\* a state whose current phase is not the last and has a non-empty, fully
\* completed checklist, a PhaseCompleted event for that phase has been
\* appended and the state's phase is the next phase of PHASE_ORDER.
C28_PhaseAdvances ==
    (/\ lastCmd # << >>
     /\ lastCmd[1].command.kind = "AdvancePhase"
     /\ currentChecklistDone(lastCmd[1].before)
     /\ nextPhase(lastCmd[1].before.phase) # lastCmd[1].before.phase) =>
        /\ \E j \in DOMAIN lastCmd[1].applied :
              /\ lastCmd[1].applied[j].kind = "PhaseCompleted"
              /\ lastCmd[1].applied[j].phase = lastCmd[1].before.phase
        /\ state.phase = nextPhase(lastCmd[1].before.phase)

-----------------------------------------------------------------------------
(* Properties of Orchestrator.runTurn (Spec)                                *)

\* turns between two RequestCheckpoint commands
CheckpointEvery == 10

\* C29: checkpoint cadence.  RequestCheckpoint is issued once every 10 turns:
\* when it has just been processed, the number of StartTurn commands the loop
\* has processed is a multiple of 10, so 10 StartTurn commands lie between
\* two consecutive RequestCheckpoint commands.
C29_CheckpointCadence ==
    (/\ lastCmd # << >>
     /\ lastCmd[1].command.kind = "RequestCheckpoint"
     /\ iters < caps.iters) =>
        iters % CheckpointEvery = 0

-----------------------------------------------------------------------------
(* Properties of decideStartTurn (SpecDecide)                               *)

\* the budget of the current phase of s is used up
budgetSpent(s) ==
    \E i \in DOMAIN s.budgets :
        /\ s.budgets[i].phase = s.phase
        /\ s.budgets[i].usedTurns >= s.budgets[i].maxTurns

\* C30: StartTurn decision.  decide(StartTurn, s) returns a single info Log
\* when hasConverged(s); otherwise, when the budget of the current phase is
\* used up, exactly a warn Log and a budget_exhausted metric; otherwise
\* exactly StartSpan, an info Log and one InvokeLLM with maxTokens = 8000.
C30_StartTurnDecision ==
    (lastCmd # << >> /\ pc = "decided" /\ lastCmd[1].command.kind = "StartTurn") =>
        LET s == lastCmd[1].before
            effects == lastCmd[1].effects
        IN IF hasConverged(s)
           THEN /\ Len(effects) = 1
                /\ effects[1].kind = "Log" /\ effects[1].level = "info"
           ELSE IF budgetSpent(s)
           THEN /\ Len(effects) = 2
                /\ effects[1].kind = "Log" /\ effects[1].level = "warn"
                /\ effects[2].kind = "RecordMetric"
                /\ effects[2].name = "budget_exhausted"
           ELSE /\ Len(effects) = 3
                /\ effects[1].kind = "StartSpan"
                /\ effects[2].kind = "Log" /\ effects[2].level = "info"
                /\ effects[3].kind = "InvokeLLM" /\ effects[3].maxTokens = 8000

\* StartTurn has been decided on a converged state
C30_Witness ==
    /\ pc = "decided"
    /\ lastCmd # << >>
    /\ lastCmd[1].command.kind = "StartTurn"
    /\ hasConverged(lastCmd[1].before)
    /\ Len(lastCmd[1].effects) = 1

-----------------------------------------------------------------------------
(* Properties of decideAdvancePhase (SpecDecide)                            *)

\* the effects hold a RecordMetric with this name
hasMetric(effects, name) ==
    \E i \in DOMAIN effects :
        effects[i].kind = "RecordMetric" /\ effects[i].name = name

\* C31: AdvancePhase decision.  decide(AdvancePhase, s) returns only a
\* warn-level Log when the checklist of the current phase is empty or has an
\* incomplete item, and also when the current phase is the final phase; it
\* returns the phase_completed metric only when that checklist is non-empty
\* and complete and a next phase exists.
C31_AdvancePhaseDecision ==
    (lastCmd # << >> /\ pc = "decided" /\ lastCmd[1].command.kind = "AdvancePhase") =>
        LET s == lastCmd[1].before
            effects == lastCmd[1].effects
            advances == /\ currentChecklistDone(s)
                        /\ nextPhase(s.phase) # s.phase
        IN /\ ~advances => /\ Len(effects) = 1
                           /\ effects[1].kind = "Log"
                           /\ effects[1].level = "warn"
           /\ hasMetric(effects, "phase_completed") => advances

-----------------------------------------------------------------------------
(* Properties of decideProcessLLMResponse (SpecCommand)                     *)

\* one WriteFile per write_file tool use that has a path and a content
\* field, in the order of the tool uses (every tool use of ToolUsesIn has
\* both fields)
RECURSIVE writesFor(_)
writesFor(toolUses) ==
    IF toolUses = << >> THEN << >>
    ELSE (IF Head(toolUses).tool = "write_file"
          THEN << [kind |-> "WriteFile", path |-> Head(toolUses).input.path,
                   content |-> Head(toolUses).input.content] >>
          ELSE << >>)
         \o writesFor(Tail(toolUses))

\* C32: ProcessLLMResponse decision.  decide returns a Log, a tokens_used
\* metric, one WriteFile per write_file tool use whose input has a path and a
\* content field (an empty content included), in tool-use order, and then
\* RunTests{coverage = true} and CheckTypes exactly when the phase is
\* implementation or testing.
C32_ProcessLLMResponseDecision ==
    (lastCmd # << >> /\ lastCmd[1].command.kind = "ProcessLLMResponse") =>
        LET s == lastCmd[1].before
            effects == lastCmd[1].effects
            writes == writesFor(lastCmd[1].command.response.toolUses)
            verifies == s.phase \in {"implementation", "testing"}
            n == 2 + Len(writes)
        IN /\ Len(effects) = n + (IF verifies THEN 2 ELSE 0)
           /\ effects[1].kind = "Log"
           /\ effects[2].kind = "RecordMetric" /\ effects[2].name = "tokens_used"
           /\ SubSeq(effects, 3, n) = writes
           /\ verifies => /\ effects[n + 1] = [kind |-> "RunTests", coverage |-> TRUE]
                          /\ effects[n + 2] = [kind |-> "CheckTypes"]

-----------------------------------------------------------------------------
(* Properties of resultToEvents (SpecMapping)                               *)

\* the artifacts of s recorded under this path
artifactsAt(s, path) == {i \in DOMAIN s.artifacts : s.artifacts[i].path = path}

\* C33: effect-to-event mapping.  resultToEvents returns exactly one
\* ArtifactCreated for a FileWritten result whose path matches no artifact of
\* the state and exactly one ArtifactUpdated with the existing artifact's id
\* otherwise; TestsPassed or TestsFailed for TestsRan according to
\* result.passed; TypeCheckPassed or TypeCheckFailed{errors} for TypesChecked;
\* the empty list for every other result kind.
C33_EffectToEvent ==
    (lastCmd # << >> /\ lastCmd[1].command.kind = "resultToEvents") =>
        LET s == lastCmd[1].before
            result == lastCmd[1].results[1]
            out == lastCmd[1].applied
        IN CASE result.kind = "FileWritten" ->
                  /\ Len(out) = 1
                  /\ IF artifactsAt(s, result.path) = {}
                     THEN /\ out[1].kind = "ArtifactCreated"
                          /\ out[1].artifact.path = result.path
                          /\ out[1].artifact.hash = result.hash
                     ELSE /\ out[1].kind = "ArtifactUpdated"
                          /\ out[1].newHash = result.hash
                          /\ \E i \in artifactsAt(s, result.path) :
                                out[1].artifactId = s.artifacts[i].id
             [] result.kind = "TestsRan" ->
                  /\ Len(out) = 1
                  /\ out[1].kind = IF result.result.passed THEN "TestsPassed"
                                   ELSE "TestsFailed"
                  /\ out[1].result = result.result
             [] result.kind = "TypesChecked" ->
                  /\ Len(out) = 1
                  /\ IF result.passed
                     THEN out[1].kind = "TypeCheckPassed"
                     ELSE /\ out[1].kind = "TypeCheckFailed"
                          /\ out[1].errors = result.errors
             [] OTHER -> out = << >>

\* a FileWritten result for a path the state already records has been
\* converted into an ArtifactUpdated event
C33_Witness ==
    /\ pc = "converted"
    /\ lastCmd # << >>
    /\ lastCmd[1].results[1].kind = "FileWritten"
    /\ artifactsAt(lastCmd[1].before, lastCmd[1].results[1].path) # {}
    /\ Len(lastCmd[1].applied) = 1
    /\ lastCmd[1].applied[1].kind = "ArtifactUpdated"

-----------------------------------------------------------------------------
(* Properties of the artifacts of the state (SpecCommand)                   *)

\* C34: artifact paths stay unique.  In every state reached by processing
\* commands through processCommand, one command that writes the same new path
\* twice included, no two entries of state.artifacts have the same path.
C34_UniqueArtifactPaths ==
    \A i, j \in DOMAIN state.artifacts :
        state.artifacts[i].path = state.artifacts[j].path => i = j

-----------------------------------------------------------------------------
(* Properties of the snapshot policy (SpecSnapshot)                         *)

\* the kinds of event the policy snapshots on
snapshotKinds == {"PhaseStarted", "PhaseCompleted", "ConvergenceReached"}

\* the rows of the snapshots table with this index and this state
snapshotsOf(rows, from, k, s) ==
    {i \in DOMAIN rows : /\ i > from
                         /\ rows[i].atEventIndex = k
                         /\ rows[i].state = stringifyState(s)}

\* C35: snapshot policy.  After applyEvent appends an event that receives
\* index k, a snapshot with atEventIndex = k holding the post-event state is
\* written if and only if k mod 100 = 0 or the event's kind is PhaseStarted,
\* PhaseCompleted or ConvergenceReached; nothing else is written.
C35_SnapshotPolicy ==
    [][Len(events') = Len(events) + 1 =>
          LET k == Len(events')
              due == k % 100 = 0 \/ events'[k].kind \in snapshotKinds
              written == snapshotsOf(snapshots', Len(snapshots), k, state')
          IN /\ due <=> written # {}
             /\ Len(snapshots') = Len(snapshots) + (IF due THEN 1 ELSE 0)
             /\ SubSeq(snapshots', 1, Len(snapshots)) = snapshots]_vars

\* the store holds a snapshot for an event whose index is a multiple of 100
\* and whose kind is not a snapshot kind, and one for an event of a snapshot
\* kind whose index is not a multiple of 100
C35_Witness ==
    /\ \E i \in DOMAIN snapshots :
          LET k == snapshots[i].atEventIndex
          IN k % 100 = 0 /\ k \in DOMAIN events /\ events[k].kind \notin snapshotKinds
    /\ \E i \in DOMAIN snapshots :
          LET k == snapshots[i].atEventIndex
          IN k % 100 # 0 /\ k \in DOMAIN events /\ events[k].kind \in snapshotKinds

-----------------------------------------------------------------------------
(* Further properties of evolve (SpecEvolve)                                *)

\* C36: activity timestamp.  For every state s and every event e of every
\* kind, CheckpointApproved and CheckpointRejected with an id that is not the
\* pending checkpoint's included, evolve(s, e).lastActivityAt = e.timestamp.
C36_ActivityTimestamp ==
    [][ (lastEvent' # << >> /\ clock' = clock + 1) =>
            state'.lastActivityAt = lastEvent'[1].timestamp ]_vars

\* C37: impossible input leaves the state unchanged.  ArtifactUpdated with an
\* artifactId that matches no artifact of s returns a state equal to s in
\* every field.
C37_UnknownArtifactUnchanged ==
    [][ (/\ lastEvent' # << >>
         /\ clock' = clock + 1
         /\ lastEvent'[1].kind = "ArtifactUpdated"
         /\ \A i \in DOMAIN state.artifacts :
               state.artifacts[i].id # lastEvent'[1].artifactId) =>
            state' = state ]_vars

\* C39: converged is sticky.  For every state s with converged = true and
\* every event e of any kind, evolve(s, e).converged = true.
C39_ConvergedSticky ==
    [][ state.converged => state'.converged ]_vars

\* the event applied by this step settles the checkpoint with this id
settles(e, kinds, id) ==
    /\ e # << >>
    /\ e[1].kind \in kinds
    /\ e[1].checkpointId = id

\* C40: a pending checkpoint is never silently replaced.  For every state s
\* with pendingCheckpoint set and every event e, pendingCheckpoint in
\* evolve(s, e) is the same checkpoint (the one with its id) or unset; it
\* becomes unset only through
\* CheckpointApproved or CheckpointRejected carrying its id; and
\* lastApprovedCheckpoint changes only to the checkpoint that was pending and
\* received a CheckpointApproved with its id.
C40_PendingNeverReplaced ==
    [][ /\ state.pendingCheckpoint # << >> =>
           \/ /\ state'.pendingCheckpoint # << >>
              /\ state'.pendingCheckpoint[1].id = state.pendingCheckpoint[1].id
           \/ /\ state'.pendingCheckpoint = << >>
              /\ settles(lastEvent', {"CheckpointApproved", "CheckpointRejected"},
                         state.pendingCheckpoint[1].id)
        /\ state'.lastApprovedCheckpoint # state.lastApprovedCheckpoint =>
              /\ state.pendingCheckpoint # << >>
              /\ state'.lastApprovedCheckpoint # << >>
              /\ state'.lastApprovedCheckpoint[1].id = state.pendingCheckpoint[1].id
              /\ settles(lastEvent', {"CheckpointApproved"},
                         state.pendingCheckpoint[1].id) ]_vars

\* the step applies a TestsPassed event whose coverage is at least 80 to a
\* state whose typesSafe, schemaValid and checklistComplete are true
greenPass(s, e) ==
    /\ s.confidence.typesSafe
    /\ s.confidence.schemaValid
    /\ s.confidence.checklistComplete
    /\ e # << >>
    /\ e[1].kind = "TestsPassed"
    /\ e[1].result.coverage # << >>
    /\ e[1].result.coverage[1] >= 80

\* C38: three passes suffice.  From a state with typesSafe, schemaValid and
\* checklistComplete true and convergenceStreak = 0, three TestsPassed events
\* with coverage >= 80 yield overallScore = 1.0, convergenceStreak = 3 and
\* converged = true, and converged is false after the first and the second.
\* Step by step: the n-th such pass (n = 1, 2, 3, the streak being n - 1
\* before it) gives the score 1.0 and the streak n, and converged exactly
\* when n = 3.
C38_ThreePassesSuffice ==
    [][ (/\ clock' = clock + 1
         /\ state.convergenceStreak < 3
         /\ greenPass(state, lastEvent')) =>
            /\ state'.confidence.overallScore = ScoreUnit
            /\ state'.convergenceStreak = state.convergenceStreak + 1
            /\ state'.converged <=> (state'.convergenceStreak = 3) ]_vars

\* the third of three passes in a row has been applied with coverage 80 on a
\* green state: the streak is 3, the score 1.0, and the state is converged
C38_Witness ==
    /\ passes = 3
    /\ state.convergenceStreak = 3
    /\ state.confidence.typesSafe
    /\ state.confidence.schemaValid
    /\ state.confidence.checklistComplete
    /\ lastEvent # << >>
    /\ lastEvent[1].kind = "TestsPassed"
    /\ lastEvent[1].result.coverage = <<80>>
    /\ state.confidence.overallScore = ScoreUnit
    /\ state.converged

=============================================================================
